---- MODULE Spec2Model ----
(***************************************************************************)
(* Verification model of the oxid orchestrator: the event-driven DAG       *)
(* walker (src/dag/walker.rs), the apply/destroy node executors            *)
(* (src/executor/engine.rs), the resource lock table and the run records   *)
(* of the SQLite state backend (src/state/sqlite.rs, src/main.rs) and the  *)
(* provider connection pool (src/provider/manager.rs).                     *)
(***************************************************************************)
EXTENDS Integers, Sequences, FiniteSets, Bags, TLC

(***************************************************************************)
(* Bounds of the model.                                                    *)
(***************************************************************************)
NumNodes == 3
MaxEdges == 3
MaxParallelism == 2
EngineNodes == 2
EngineEdges == 3

NumAddresses == 1

NumWorkspaces == 1

MaxLockIds == 2

MaxClock == 3

MaxTtl == 0

\* Concurrent callers of the provider manager, and provider keys.
NumClients == 2
NumSources == 1

\* Invocations of the apply and destroy commands.
NumCmds == 2

\* Dependency mentions (depends_on entries and references) of a
\* configuration.
CmdEdges == 2

\* Resources and dependency mentions of the configurations handed to the
\* graph builder.
DagNodes == 3
DagMentions == 2

\* Addresses, row ids and column values of the resources table, and the
\* instances of an imported snapshot.
RowAddresses == 2
RowIds == 2
RowValues == 2
SnapshotLen == 2
RowTicks == 1

\* Processes that take file locks, and module names.
LockProcs == 2
ModuleNames == 2

\* Widths, in bits, that stand for the u32 of the retry counter and the
\* u64 of the delay.
RetryBits == 3
DelayBits == 4

\* Candidate edges <<from, to>> of a graph of n nodes: "to" depends on
\* "from".  Every DAG has a numbering in which edges go from a smaller to a
\* larger index.
EdgePairs(n) == {p \in (1..n) \X (1..n) : p[1] < p[2]}

PairRank(p) == p[1] * (NumNodes + 1) + p[2]

\* Edge lists in insertion order; petgraph's add_edge keeps parallel edges,
\* so a pair may occur more than once (explicit + implicit dependency).
RECURSIVE EdgeLists(_, _)
EdgeLists(n, k) ==
    IF k = 0 THEN {<<>>}
    ELSE LET shorter == EdgeLists(n, k - 1)
         IN shorter \cup
            {Append(s, p) : s \in {t \in shorter : Len(t) = k - 1}, p \in EdgePairs(n)}

IsSortedEdges(s) ==
    \A i \in 1..(Len(s) - 1) : PairRank(s[i]) <= PairRank(s[i + 1])

Graphs(n, k) == {s \in EdgeLists(n, k) : IsSortedEdges(s)}

VARIABLES
    nodeCount,       \* graph.node_count()
    edges,           \* the graph's edge list (fixed during a walk)
    maxParallelism,  \* DagWalker.max_parallelism
    walkPc,          \* "start" | "loop" | "returned"
    statuses,        \* statuses map: node -> status tag
    skipDep,         \* X of Skipped("Dependency 'X' failed"), 0 if none
    tasks,           \* spawned tokio tasks (a bag: tasks in the same state are alike)
    permits,         \* available semaphore permits
    channel,         \* mpsc channel: completion messages in flight
    completedCount,  \* completed_count
    results,         \* results vector (as a bag of [node, status])
    reached,         \* history: nodes that were marked Succeeded by the walker
    mode,            \* executor handed to walk: "walk" (any), "apply", "destroy"
    kind,            \* DagNode variant of each node
    store,           \* resources table: the state row of each address
    liveState,       \* resource_states: the live-state map of an apply run
    rpcLog,          \* history: provider RPCs issued by the executors
    locks,           \* resource_locks table
    workspaces,      \* workspaces table: the ids of its rows
    nextWorkspace,   \* the id of the next workspace created
    nextLockId,      \* the next fresh lock_id
    clock,           \* the wall clock, in ticks
    lastOp,          \* history: the last store method that ran, and its result
    connections,     \* ProviderManager.connections: the process stored for each key
    started,         \* history: provider processes started for each key
    schemas,         \* ProviderManager.schemas: the keys with a cached schema
    clients,         \* callers of the ProviderManager: operation and position
    rw,              \* the RwLock of connections: holders and waiters
    runs,            \* runs table
    cmds,            \* invocations of apply and destroy: position and plan
    planned,         \* the action the plan phase recorded for each node
    input,           \* argument of the function under study
    output           \* its result, "none" before the call

graphVars == <<nodeCount, edges, maxParallelism, mode, kind, planned>>

\* What a step of a spawned task leaves alone in the walker.
walkerOwned == <<walkPc, statuses, skipDep, completedCount, results, reached>>

walkVars == <<graphVars, walkPc, statuses, skipDep, tasks,
              permits, channel, completedCount, results, reached>>

engineVars == <<store, liveState, rpcLog>>

lockVars == <<locks, workspaces, nextWorkspace, nextLockId, clock, lastOp>>

poolVars == <<connections, started, schemas, clients, rw>>

runVars == <<runs, cmds>>

funVars == <<input, output>>

vars == <<walkVars, engineVars, lockVars, poolVars, runVars, funVars>>

(***************************************************************************)
(* State store locks: src/state/sqlite.rs, src/state/schema.rs             *)
(*                                                                         *)
(* SqliteBackend keeps its connection in a Mutex that every method holds   *)
(* from its first statement to its return, so each method is one step.     *)
(* Time is the wall clock read by Utc::now(), taken to be non-decreasing.  *)
(***************************************************************************)
Addresses == 1..NumAddresses

WorkspaceIds == 1..NumWorkspaces

LockIds == 1..MaxLockIds

\* LockInfo.ttl_secs: None is <<>>, Some(seconds) is <<seconds>>
Ttls == {<<>>} \cup {<<n>> : n \in 0..MaxTtl}

\* The instants of one second a clock reading can fall on, as the digits
\* to_rfc3339 prints after the seconds: none for a whole second, else the
\* shortest of 3, 6 or 9 digits that is exact.
Fraction == << <<>>, <<2, 5, 0>>, <<2, 5, 0, 5, 0, 0>> >>

TicksPerSecond == Len(Fraction)

\* The latest instant a row can carry.
MaxTime == MaxClock + (MaxTtl + 1) * TicksPerSecond

\* chrono's to_rfc3339 of instant c, as character codes: the seconds, then
\* '.' and the fraction digits unless the fraction is zero, then the '+' of
\* the "+00:00" offset.
Rfc3339(c) ==
    LET f == Fraction[(c % TicksPerSecond) + 1]
        sec == <<48 + (c \div TicksPerSecond)>>
    IN  IF f = <<>>
        THEN sec \o <<43>>
        ELSE sec \o <<46>> \o [i \in 1..Len(f) |-> 48 + f[i]] \o <<43>>

\* SQLite's < on two TEXT values: byte-wise comparison.
TextLess(s, t) ==
    \/ \E i \in 1..Len(s) :
           /\ i <= Len(t)
           /\ \A j \in 1..(i - 1) : s[j] = t[j]
           /\ s[i] < t[i]
    \/ /\ Len(s) < Len(t)
       /\ \A j \in 1..Len(s) : s[j] = t[j]

\* The instant a timestamp text denotes.
ParseTime(s) == CHOOSE c \in 0..MaxTime : Rfc3339(c) = s

\* A row of resource_locks is [address, workspace, lockId, expiresAt]; the
\* columns no statement of a lock method tests (locked_at, locked_by,
\* operation, info) are left out.
\* SQL NULL in the expires_at column (a timestamp text is never empty).
Null == <<>>

\* What the store method last called did and whether it returned Ok (for
\* is_locked: Some).  Kept for acquire_lock: the key, whether a row of the
\* key was reaped and whether the call before was the release of the key;
\* for release_lock: the lock_id asked for and the key of the row deleted.
NoOp ==
    [op |-> "none", address |-> 0, workspace |-> 0, lockId |-> 0, ok |-> TRUE,
     reaped |-> FALSE, afterRelease |-> FALSE]

\* The tables of a fresh database.
StoreInit ==
    /\ locks = {}
    /\ workspaces = {}
    /\ nextWorkspace = 1
    /\ nextLockId = 1
    /\ clock = 0
    /\ lastOp = NoOp

RowsOf(a, w, rows) == {l \in rows : l.address = a /\ l.workspace = w}

\* Mutation of the expiry test: no row ever counts as expired.
Expired_Never(l, now) == FALSE

\* WHERE expires_at IS NOT NULL AND expires_at < ?1
Expired(l, now) == l.expiresAt /= Null /\ TextLess(l.expiresAt, now)

\* Mutation of the reaping: the IS NOT NULL test is left out.
Reap_NullExpires(rows, now) == {l \in rows : ~TextLess(l.expiresAt, now)}

\* DELETE FROM resource_locks WHERE expires_at IS NOT NULL AND expires_at < now
Reap(rows, now) == {l \in rows : ~Expired(l, now)}

\* Mutation of the key constraint: no PRIMARY KEY on the table.
KeyTaken_NoPrimaryKey(a, w, rows) == FALSE

\* PRIMARY KEY (resource_address, workspace_id)
KeyTaken(a, w, rows) == RowsOf(a, w, rows) /= {}

\* The INSERT is accepted: the key is free and the workspace row that the
\* FOREIGN KEY names exists.  (lock_id UNIQUE holds: the uuid is fresh.)
InsertAccepted(a, w, rows) == w \in workspaces /\ ~KeyTaken(a, w, rows)

\* info.ttl_secs.map(|ttl| Utc::now() + Duration::seconds(ttl)), read at
\* instant c.
ExpiresAt(ttl, c) ==
    IF ttl = <<>> THEN Null ELSE Rfc3339(c + ttl[1] * TicksPerSecond)

\* acquire_lock(address, workspace_id, info).  The clock is read twice:
\* for now, and skew ticks later for expires_at.
AcquireLock(a, w, ttl, skew) ==
    LET now == Rfc3339(clock)
        kept == Reap(locks, now)
        row == [address |-> a, workspace |-> w, lockId |-> nextLockId,
                expiresAt |-> ExpiresAt(ttl, clock + skew)]
        accepted == InsertAccepted(a, w, kept)
    IN  /\ nextLockId <= MaxLockIds
        /\ clock + skew <= MaxClock
        /\ clock' = clock + skew
        /\ locks' = IF accepted THEN kept \cup {row} ELSE kept
        /\ nextLockId' = IF accepted THEN nextLockId + 1 ELSE nextLockId
        /\ lastOp' = [op |-> "acquire", address |-> a, workspace |-> w,
                      ok |-> accepted,
                      reaped |-> (RowsOf(a, w, locks \ kept) /= {}),
                      afterRelease |-> /\ lastOp.op = "release" /\ lastOp.ok
                                       /\ lastOp.address = a
                                       /\ lastOp.workspace = w]
        /\ UNCHANGED <<workspaces, nextWorkspace>>

\* Mutation of the release: the row is left in the table.
RowsAfterRelease_Kept(id, rows) == rows

\* DELETE FROM resource_locks WHERE lock_id = ?1
RowsAfterRelease(id, rows) == {l \in rows : l.lockId /= id}

\* Mutation of the row count test: the release never reports a missing lock.
ReleaseFound_Always(id, rows) == TRUE

\* rows /= 0: the DELETE removed a row.
ReleaseFound(id, rows) == {l \in rows : l.lockId = id} /= {}

\* release_lock(lock_id): "Lock not found" when no row was deleted.
ReleaseLock(id) ==
    LET hit == {l \in locks : l.lockId = id}
    IN  /\ locks' = RowsAfterRelease(id, locks)
        /\ lastOp' = IF hit = {}
                     THEN [NoOp EXCEPT !.op = "release", !.lockId = id,
                                       !.ok = ReleaseFound(id, locks)]
                     ELSE LET l == CHOOSE r \in hit : TRUE
                          IN  [NoOp EXCEPT !.op = "release", !.lockId = id,
                                           !.ok = ReleaseFound(id, locks),
                                           !.address = l.address,
                                           !.workspace = l.workspace]
        /\ UNCHANGED <<workspaces, nextWorkspace, nextLockId, clock>>

\* force_unlock(address, workspace_id)
ForceUnlock(a, w) ==
    /\ locks' = locks \ RowsOf(a, w, locks)
    /\ lastOp' = [NoOp EXCEPT !.op = "force_unlock"]
    /\ UNCHANGED <<workspaces, nextWorkspace, nextLockId, clock>>

\* is_locked(address, workspace_id): Some(lock) or None.
IsLocked(a, w) ==
    LET now == Rfc3339(clock)
        kept == Reap(locks, now)
    IN  /\ locks' = kept
        /\ lastOp' = [NoOp EXCEPT !.op = "is_locked",
                                  !.ok = (RowsOf(a, w, kept) /= {})]
        /\ UNCHANGED <<workspaces, nextWorkspace, nextLockId, clock>>

\* create_workspace(name): a row with a fresh id.
CreateWorkspace ==
    /\ nextWorkspace <= NumWorkspaces
    /\ workspaces' = workspaces \cup {nextWorkspace}
    /\ nextWorkspace' = nextWorkspace + 1
    /\ lastOp' = [NoOp EXCEPT !.op = "create_workspace"]
    /\ UNCHANGED <<locks, nextLockId, clock>>

\* delete_workspace(name): ON DELETE CASCADE removes the workspace's locks
\* and runs.
DeleteWorkspace(w) ==
    /\ w \in workspaces
    /\ workspaces' = workspaces \ {w}
    /\ locks' = {l \in locks : l.workspace /= w}
    /\ runs' = {r \in runs : r.workspace /= w}
    /\ lastOp' = [NoOp EXCEPT !.op = "delete_workspace"]
    /\ UNCHANGED <<nextWorkspace, nextLockId, clock>>

\* Time passes.
Tick ==
    /\ clock < MaxClock
    /\ clock' = clock + 1
    /\ UNCHANGED <<locks, workspaces, nextWorkspace, nextLockId, lastOp>>

(***************************************************************************)
(* Run records: src/main.rs (cmd_apply, cmd_destroy), src/state/sqlite.rs  *)
(*                                                                         *)
(* Each invocation is a process of its own on the same database; each      *)
(* store method is one step.                                               *)
(***************************************************************************)
Cmds == 1..NumCmds

\* A command that has not been invoked.
NoCmd == [op |-> "none", pc |-> "none", ws |-> 0, status |-> "none",
          recorded |-> FALSE, outcome |-> "none"]

\* A database without runs, and no command invoked.
RunsInit ==
    /\ runs = {}
    /\ cmds = [i \in Cmds |-> NoCmd]

\* The command returns.
Exit(i, how) == [cmds EXCEPT ![i].pc = "exited", ![i].outcome = how]

\* cmd_apply, cmd_destroy, up to get_workspace(DEFAULT_WORKSPACE): found is
\* the id of the default workspace, 0 when there is none (the command then
\* returns the error "No default workspace").
CmdInvoke(i, op, found) ==
    /\ cmds[i].pc = "none"
    /\ cmds' = IF found = 0
               THEN Exit(i, "error")
               ELSE [cmds EXCEPT ![i].op = op, ![i].pc = "plan", ![i].ws = found]
    /\ UNCHANGED runs

\* cmd_apply: engine.plan(..).await?, the "No changes" return and the
\* confirmation; cmd_destroy: count_resources(..).await?, the "Nothing to
\* destroy" return and the confirmation.
CmdPlan(i, outcome) ==
    /\ cmds[i].pc = "plan"
    /\ cmds' = IF outcome = "approved"
               THEN [cmds EXCEPT ![i].pc = "start_run"]
               ELSE Exit(i, outcome)
    /\ UNCHANGED runs

\* Mutation of start_run: a run is refused while an earlier run of the
\* workspace is in status running.
RunAccepted_NoneRunning(w, rs) ==
    /\ w \in workspaces
    /\ ~\E r \in rs : r.workspace = w /\ r.status = "running"

\* INSERT INTO runs: the row is accepted when its workspace_id is the id
\* of a row of workspaces (foreign key); its id is a fresh UUID.
RunAccepted(w, rs) == w \in workspaces

\* start_run(ws.id, operation, planned).await?
CmdStartRun(i) ==
    /\ cmds[i].pc = "start_run"
    /\ IF RunAccepted(cmds[i].ws, runs)
       THEN /\ runs' = runs \cup {[id |-> i, workspace |-> cmds[i].ws,
                                   status |-> "running", operation |-> cmds[i].op,
                                   completedAt |-> "null"]}
            /\ cmds' = [cmds EXCEPT ![i].pc = "engine", ![i].recorded = TRUE]
       ELSE /\ cmds' = Exit(i, "error")
            /\ UNCHANGED runs

\* engine.apply(..).await? / engine.destroy(..).await?: on Err the command
\* returns and the run stays in status running.
CmdEngine(i, result) ==
    /\ cmds[i].pc = "engine"
    /\ cmds' = IF result = "err"
               THEN Exit(i, "error")
               ELSE [cmds EXCEPT ![i].pc = "complete", ![i].status = result]
    /\ UNCHANGED runs

\* complete_run(run_id, status, ..): UPDATE runs SET completed_at = now,
\* status = .. WHERE id = run_id.
CmdCompleteRun(i) ==
    /\ cmds[i].pc = "complete"
    /\ runs' = {IF r.id = i
                THEN [r EXCEPT !.status = cmds[i].status, !.completedAt = "now"]
                ELSE r : r \in runs}
    /\ cmds' = Exit(i, "done")

(***************************************************************************)
(* Provider pool: src/provider/manager.rs                                  *)
(*                                                                         *)
(* connections is a tokio RwLock<HashMap>: any number of readers or one    *)
(* writer hold it, and waiters are served in the order they asked.  A      *)
(* guard is held from its acquisition to the end of its block, across the  *)
(* awaits in between.                                                      *)
(***************************************************************************)
Clients == 1..NumClients

\* The keys "namespace/type" of the providers.
Sources == 1..NumSources

\* A caller that is in no method of the manager.
Idle == [op |-> "none", src |-> 0, pc |-> "idle", proc |-> 0]

\* ProviderManager::new
PoolInit ==
    /\ connections = [s \in Sources |-> 0]
    /\ started = [s \in Sources |-> 0]
    /\ schemas = {}
    /\ clients = [c \in Clients |-> Idle]
    /\ rw = [readers |-> {}, writer |-> 0, queue |-> <<>>]

\* Mutation of the lock: a Mutex, which one caller holds at a time.
Compatible_Exclusive(l, k) == l.writer = 0 /\ l.readers = {}

\* RwLock: a read guard can be given while no write guard is out, a write
\* guard while no guard is out.
Compatible(l, k) ==
    IF k = "read" THEN l.writer = 0 ELSE l.writer = 0 /\ l.readers = {}

Grant(l, c, k) ==
    IF k = "read" THEN [l EXCEPT !.readers = @ \cup {c}]
                  ELSE [l EXCEPT !.writer = c]

\* connections.read().await / connections.write().await: the guard is
\* given at once when nobody waits and it is compatible with the guards
\* that are out; otherwise the caller joins the queue.
Acquire(l, c, k) ==
    IF l.queue = <<>> /\ Compatible(l, k)
    THEN Grant(l, c, k)
    ELSE [l EXCEPT !.queue = Append(@, [client |-> c, kind |-> k])]

\* The waiters at the head of the queue get their guards as long as they
\* are compatible.
RECURSIVE Wake(_)
Wake(l) ==
    IF l.queue /= <<>> /\ Compatible(l, Head(l.queue).kind)
    THEN Wake(Grant([l EXCEPT !.queue = Tail(@)],
                    Head(l.queue).client, Head(l.queue).kind))
    ELSE l

\* Drop of a guard.
Release(l, c) ==
    Wake([l EXCEPT !.readers = @ \ {c}, !.writer = IF @ = c THEN 0 ELSE @])

Begin(c, op, s, pc) ==
    [clients EXCEPT ![c] = [op |-> op, src |-> s, pc |-> pc, proc |-> 0]]

Returns(c) == [clients EXCEPT ![c] = Idle]

\* get_connection, up to connections.read().await of the fast path.
GetConnectionCall(c, s) ==
    /\ clients[c].pc = "idle"
    /\ clients' = Begin(c, "get_connection", s, "gc_check")
    /\ rw' = Acquire(rw, c, "read")
    /\ UNCHANGED <<connections, started, schemas>>

\* get_schema, when the schema is not cached: it calls get_connection.
GetSchemaCall(c, s) ==
    /\ clients[c].pc = "idle"
    /\ s \notin schemas
    /\ clients' = Begin(c, "get_schema", s, "gc_check")
    /\ rw' = Acquire(rw, c, "read")
    /\ UNCHANGED <<connections, started, schemas>>

\* What follows the Ok of get_connection: its caller goes on, get_schema
\* to connections.write().await.
AfterGetConnection(c, l) ==
    IF clients[c].op = "get_schema"
    THEN /\ clients' = [clients EXCEPT ![c].pc = "w_lookup"]
         /\ rw' = Acquire(l, c, "write")
    ELSE /\ clients' = Returns(c)
         /\ rw' = l

\* get_connection, fast path: with the read guard, contains_key; the guard
\* is dropped at the end of the block.
GetConnectionCheck(c) ==
    /\ clients[c].pc = "gc_check"
    /\ c \in rw.readers
    /\ IF connections[clients[c].src] /= 0
       THEN AfterGetConnection(c, Release(rw, c))
       ELSE /\ clients' = [clients EXCEPT ![c].pc = "gc_start"]
            /\ rw' = Release(rw, c)
    /\ UNCHANGED <<connections, started, schemas>>

\* get_connection: ensure_provider(..).await? and
\* ProviderConnection::start(..).await?, then connections.write().await.
GetConnectionStart(c, ok) ==
    /\ clients[c].pc = "gc_start"
    /\ IF ok
       THEN /\ started' = [started EXCEPT ![clients[c].src] = @ + 1]
            /\ clients' = [clients EXCEPT ![c].pc = "gc_insert",
                                          ![c].proc = started'[clients[c].src]]
            /\ rw' = Acquire(rw, c, "write")
       ELSE /\ clients' = Returns(c)
            /\ UNCHANGED <<started, rw>>
    /\ UNCHANGED <<connections, schemas>>

\* get_connection: conns.insert(key, conn) with the write guard; the
\* connection that was stored under the key, if any, is dropped.
GetConnectionInsert(c) ==
    /\ clients[c].pc = "gc_insert"
    /\ rw.writer = c
    /\ connections' = [connections EXCEPT ![clients[c].src] = clients[c].proc]
    /\ AfterGetConnection(c, Release(rw, c))
    /\ UNCHANGED <<started, schemas>>

\* configure_provider, up to connections.write().await.
ConfigureProviderCall(c, s) ==
    /\ clients[c].pc = "idle"
    /\ clients' = Begin(c, "configure_provider", s, "w_lookup")
    /\ rw' = Acquire(rw, c, "write")
    /\ UNCHANGED <<connections, started, schemas>>

\* get_schema, configure_provider: conns.get_mut(&key) with the write
\* guard, Err when the provider is not connected, else the RPC is issued.
WriteLookup(c) ==
    /\ clients[c].pc = "w_lookup"
    /\ rw.writer = c
    /\ IF connections[clients[c].src] = 0
       THEN /\ clients' = Returns(c)
            /\ rw' = Release(rw, c)
       ELSE /\ clients' = [clients EXCEPT ![c].pc = "w_inflight"]
            /\ UNCHANGED rw
    /\ UNCHANGED <<connections, started, schemas>>

\* get_schema, configure_provider: the RPC returns; get_schema caches the
\* schema of an Ok; the write guard is dropped at the return.
WriteReturn(c, ok) ==
    /\ clients[c].pc = "w_inflight"
    /\ schemas' = IF ok /\ clients[c].op = "get_schema"
                  THEN schemas \cup {clients[c].src} ELSE schemas
    /\ clients' = Returns(c)
    /\ rw' = Release(rw, c)
    /\ UNCHANGED <<connections, started>>

\* plan_resource, apply_resource, read_resource, read_data_source, up to
\* connections.read().await.
RpcCall(c, s) ==
    /\ clients[c].pc = "idle"
    /\ clients' = Begin(c, "rpc", s, "r_lookup")
    /\ rw' = Acquire(rw, c, "read")
    /\ UNCHANGED <<connections, started, schemas>>

\* plan_resource ..: conns.get(&key) with the read guard, Err when the
\* provider is not connected, else the RPC is issued.
RpcLookup(c) ==
    /\ clients[c].pc = "r_lookup"
    /\ c \in rw.readers
    /\ IF connections[clients[c].src] = 0
       THEN /\ clients' = Returns(c)
            /\ rw' = Release(rw, c)
       ELSE /\ clients' = [clients EXCEPT ![c].pc = "r_inflight"]
            /\ UNCHANGED rw
    /\ UNCHANGED <<connections, started, schemas>>

\* plan_resource ..: the RPC returns and the read guard is dropped.
RpcReturn(c) ==
    /\ clients[c].pc = "r_inflight"
    /\ clients' = Returns(c)
    /\ rw' = Release(rw, c)
    /\ UNCHANGED <<connections, started, schemas>>

(***************************************************************************)
(* DAG walker: src/dag/walker.rs                                           *)
(***************************************************************************)
Nodes == 1..nodeCount

\* dependents[from]: the "to" ends of from's edges, in edge order, with
\* one entry per parallel edge.
RECURSIVE DependentsFrom(_, _)
DependentsFrom(n, k) ==
    IF k > Len(edges) THEN <<>>
    ELSE IF edges[k][1] = n THEN <<edges[k][2]>> \o DependentsFrom(n, k + 1)
    ELSE DependentsFrom(n, k + 1)

Dependents(n) == DependentsFrom(n, 1)

DependentSet(n) == {edges[k][2] : k \in {j \in DOMAIN edges : edges[j][1] = n}}

\* dependencies[to]: the "from" ends of the edges into a node.
Dependencies(n) == {edges[k][1] : k \in {j \in DOMAIN edges : edges[j][2] = n}}

InDegree(n) == Cardinality({k \in DOMAIN edges : edges[k][2] = n})

\* Mutation of all_deps_met: one Succeeded dependency is taken to be enough.
AllDepsMet_AnyDep(d, st) == \E dep \in Dependencies(d) : st[dep] = "Succeeded"

\* all_deps_met: every dependency's entry in the statuses map is Succeeded.
AllDepsMet(d, st) == \A dep \in Dependencies(d) : st[dep] = "Succeeded"

\* collect_transitive_dependents: depth-first search from start over the
\* dependents lists; start itself is not part of the result.
RECURSIVE CollectFrom(_, _)
CollectFrom(stack, visited) ==
    IF stack = {} THEN visited
    ELSE LET node == CHOOSE x \in stack : TRUE
             fresh == DependentSet(node) \ visited
         IN CollectFrom((stack \ {node}) \cup fresh, visited \cup fresh)

CollectTransitiveDependents(start) == CollectFrom({start}, {})

\* Transitive dependencies of a node (used by the properties only).
RECURSIVE AncestorsFrom(_, _)
AncestorsFrom(stack, visited) ==
    IF stack = {} THEN visited
    ELSE LET node == CHOOSE x \in stack : TRUE
             fresh == Dependencies(node) \ visited
         IN AncestorsFrom((stack \ {node}) \cup fresh, visited \cup fresh)

Ancestors(n) == AncestorsFrom({n}, {})

NewTask(idx) ==
    [node |-> idx, pc |-> "acquire", res |-> "none", out |-> "none",
     prior |-> "none", obs |-> {}, due |-> {}, trace |-> <<>>, stored |-> <<>>]

\* spawn_node: mark Running and spawn the detached task, which first waits
\* for a semaphore permit.
SpawnStatuses(idx, st) == [st EXCEPT ![idx] = "Running"]

SpawnTasks(idx, tk) == tk (+) SetToBag({NewTask(idx)})

\* The bag of tasks with task t replaced by task u.
ReplaceTask(t, u) == (tasks (-) SetToBag({t})) (+) SetToBag({u})

\* "for &idx in &ready { spawn_node(..) }"
RECURSIVE SpawnAll(_, _)
SpawnAll(ready, acc) ==
    IF ready = {} THEN acc
    ELSE LET idx == CHOOSE x \in ready : \A y \in ready : x <= y
         IN SpawnAll(ready \ {idx},
                     [st |-> SpawnStatuses(idx, acc.st), tk |-> SpawnTasks(idx, acc.tk)])

\* "for &dependent_idx in deps { if all_deps_met { spawn_node(..) } }":
\* the loop reads the statuses map that the earlier iterations wrote.
RECURSIVE SpawnReadyDependents(_, _, _)
SpawnReadyDependents(deps, k, acc) ==
    IF k > Len(deps) THEN acc
    ELSE IF AllDepsMet(deps[k], acc.st)
         THEN SpawnReadyDependents(deps, k + 1,
                  [st |-> SpawnStatuses(deps[k], acc.st),
                   tk |-> SpawnTasks(deps[k], acc.tk)])
         ELSE SpawnReadyDependents(deps, k + 1, acc)

\* Loop condition of "while completed_count < node_count".
WalkContinues(completed) == completed < nodeCount

\* completed_count after a failure cascaded to the set skipped.
CountAfterSkip(completed, skipped) == completed + Cardinality(skipped)

\* A NodeResult: node, status and the outputs of an Ok result.
Entry(n, s, o) == [node |-> n, status |-> s, outputs |-> o]

\* The record of a node in the plan: the action of its PlannedChange and
\* whether its requires_replace is non-empty.
Planned(action, requiresReplace) == [action |-> action, replace |-> requiresReplace]

\* No plan phase has run.
NoPlan == planned = [n \in Nodes |-> Planned("none", FALSE)]

\* No function is under study.
NoResult == [fn |-> "none", ok |-> FALSE, graph |-> <<>>, order |-> <<>>, names |-> {}]

NoCall == input = <<>> /\ output = NoResult

\* The walker's variables before walk is called.
WalkerFresh ==
    /\ statuses = [n \in Nodes |-> "Pending"]
    /\ skipDep = [n \in Nodes |-> 0]
    /\ tasks = EmptyBag
    /\ permits = maxParallelism
    /\ channel = <<>>
    /\ completedCount = 0
    /\ results = EmptyBag
    /\ reached = {}

\* State at the call of walk, before its first statement.
WalkerInit == walkPc = "start" /\ WalkerFresh

\* A walk of any graph with an executor of which only the result is known.
WalkInit ==
    /\ nodeCount \in 0..NumNodes
    /\ edges \in Graphs(nodeCount, MaxEdges)
    /\ maxParallelism \in 0..MaxParallelism
    /\ mode = "walk"
    /\ kind = [n \in Nodes |-> "Resource"]
    /\ store = [n \in Nodes |-> "none"]
    /\ liveState = [n \in Nodes |-> "none"]
    /\ rpcLog = {}
    /\ StoreInit
    /\ PoolInit
    /\ RunsInit
    /\ NoPlan
    /\ NoCall
    /\ WalkerInit

\* walk, up to the first rx.recv().await: precompute the dependency maps,
\* spawn the nodes of in-degree 0.
WalkStart ==
    /\ walkPc = "start"
    /\ LET ready == {n \in Nodes : InDegree(n) = 0}
           sp == SpawnAll(ready, [st |-> statuses, tk |-> tasks])
       IN /\ statuses' = sp.st
          /\ tasks' = sp.tk
    /\ walkPc' = IF nodeCount /= 0 /\ WalkContinues(completedCount)
                 THEN "loop" ELSE "returned"
    /\ UNCHANGED <<graphVars, skipDep, permits, channel,
                   completedCount, results, reached, engineVars, lockVars, poolVars, runVars, funVars>>

\* One iteration of the completion loop: receive a NodeCompleted message,
\* record it, spawn the dependents that became ready or cascade the skip,
\* then test the loop condition (walk returns when it is false).
WalkRecv ==
    /\ walkPc = "loop"
    /\ channel /= <<>>
    /\ LET msg == Head(channel)
           node == msg.node
           st1 == [statuses EXCEPT ![node] = msg.status]
           c1 == completedCount + 1
       IN /\ channel' = Tail(channel)
          /\ IF msg.status = "Succeeded"
             THEN LET sp == SpawnReadyDependents(Dependents(node), 1,
                                                 [st |-> st1, tk |-> tasks])
                  IN /\ statuses' = sp.st
                     /\ tasks' = sp.tk
                     /\ completedCount' = c1
                     /\ results' = results (+) SetToBag({msg})
                     /\ reached' = reached \cup {node}
                     /\ UNCHANGED skipDep
             ELSE LET skipped == CollectTransitiveDependents(node)
                  IN /\ statuses' = [n \in Nodes |->
                                        IF n \in skipped THEN "Skipped" ELSE st1[n]]
                     /\ skipDep' = [n \in Nodes |->
                                        IF n \in skipped THEN node ELSE skipDep[n]]
                     /\ completedCount' = CountAfterSkip(c1, skipped)
                     /\ results' = results
                                     (+) SetToBag({Entry(n, "Skipped", "none") : n \in skipped})
                                     (+) SetToBag({msg})
                     /\ UNCHANGED <<tasks, reached>>
          /\ walkPc' = IF WalkContinues(completedCount') THEN "loop" ELSE "returned"
    /\ UNCHANGED <<graphVars, permits, engineVars, lockVars, poolVars, runVars, funVars>>

\* The live-state entries a node's executor finds for its dependencies when
\* it evaluates the node's attributes (resolve_reference).
Observed(n) == {d \in Dependencies(n) : liveState[d] /= "none"}

\* The walker has recorded node n Succeeded with a new state as outputs.
MarkedWithState(n) == BagIn(Entry(n, "Succeeded", "new"), results)

\* History: the dependencies whose new state of this run the executor is
\* due to see when it is called.
Due(n) == {d \in Dependencies(n) : MarkedWithState(d)}

\* First poll of the apply executor: the attributes are evaluated against
\* the live-state map, then the executor awaits its first call.
ApplyStart(t) ==
    CASE kind[t.node] = "Resource" ->
             [t EXCEPT !.pc = "get_prior", !.obs = Observed(t.node),
                       !.due = Due(t.node)]
      [] kind[t.node] = "DataSource" ->
             [t EXCEPT !.pc = "read", !.obs = Observed(t.node),
                       !.due = Due(t.node)]
      [] OTHER -> [t EXCEPT !.pc = "output"]

\* First poll of the destroy executor.
DestroyStart(t) ==
    IF kind[t.node] = "Resource"
    THEN [t EXCEPT !.pc = "get_current"]
    ELSE [t EXCEPT !.pc = "output"]

\* The task calls the executor it was given.
ExecStart(t) ==
    CASE mode = "apply" -> ApplyStart(t)
      [] mode = "destroy" -> DestroyStart(t)
      [] OTHER -> [t EXCEPT !.pc = "exec"]

\* Mutation of the semaphore: acquire never waits.
CanAcquire_NoWait(p) == TRUE

\* Semaphore::acquire: a permit is taken only when one is available.
CanAcquire(p) == p > 0

\* "let _permit = semaphore.acquire().await" followed by the call of the
\* executor: the task now runs the node's executor.
TaskAcquire(t) ==
    /\ t.pc = "acquire"
    /\ CanAcquire(permits)
    /\ permits' = permits - 1
    /\ tasks' = ReplaceTask(t, ExecStart(t))
    /\ UNCHANGED <<graphVars, walkerOwned, channel, engineVars, lockVars, poolVars, runVars, funVars>>

\* tx.send(NodeCompleted(..)).await completes when the channel (capacity
\* node_count) has room, or at once with an ignored error when walk has
\* returned and dropped the receiver; the permit is dropped after it.
SendReady == walkPc = "returned" \/ Len(channel) < nodeCount

ChannelAfterSend(result) ==
    IF walkPc = "returned" THEN channel ELSE Append(channel, result)

\* The executor of task t returns Ok(outputs) (Succeeded) or Err (Failed,
\* outputs none): the task builds the NodeResult and sends it.
\* The trace of the executor's calls ends with the executor.  u is t with
\* the history of its last step.
TaskReturnsAs(t, u, status, outputs) ==
    /\ IF SendReady
       THEN /\ channel' = ChannelAfterSend(Entry(t.node, status, outputs))
            /\ permits' = permits + 1
            /\ tasks' = ReplaceTask(t, [u EXCEPT !.pc = "done", !.res = status,
                                                 !.out = outputs, !.trace = <<>>])
       ELSE /\ tasks' = ReplaceTask(t, [u EXCEPT !.pc = "send", !.res = status,
                                                 !.out = outputs, !.trace = <<>>])
            /\ UNCHANGED <<channel, permits>>
    /\ UNCHANGED <<graphVars, walkerOwned>>

TaskReturns(t, status, outputs) == TaskReturnsAs(t, t, status, outputs)

\* An executor of which only the result is known returns.
ExecutorReturns(t, status) ==
    /\ t.pc = "exec"
    /\ TaskReturns(t, status, "none")
    /\ UNCHANGED <<engineVars, lockVars, poolVars, runVars, funVars>>

\* A task that was blocked on a full channel completes its send.
TaskSend(t) ==
    /\ t.pc = "send"
    /\ SendReady
    /\ channel' = ChannelAfterSend(Entry(t.node, t.res, t.out))
    /\ permits' = permits + 1
    /\ tasks' = ReplaceTask(t, [t EXCEPT !.pc = "done"])
    /\ UNCHANGED <<graphVars, walkerOwned, engineVars, lockVars, poolVars, runVars, funVars>>

WalkNext ==
    \/ WalkStart
    \/ WalkRecv
    \/ \E t \in BagToSet(tasks) : TaskAcquire(t)
    \/ \E t \in BagToSet(tasks) : \E status \in {"Succeeded", "Failed"} :
           ExecutorReturns(t, status)
    \/ \E t \in BagToSet(tasks) : TaskSend(t)

SpecWalk == WalkInit /\ [][WalkNext]_vars

\* The steps of the tasks of node n.
AcquireOf(n) == \E t \in BagToSet(tasks) : t.node = n /\ TaskAcquire(t)

ReturnOf(n) ==
    \E t \in BagToSet(tasks) : \E status \in {"Succeeded", "Failed"} :
        t.node = n /\ ExecutorReturns(t, status)

SendOf(n) == \E t \in BagToSet(tasks) : t.node = n /\ TaskSend(t)

\* The walk under the runtime's scheduling: the walk task and every
\* spawned task are polled when they can proceed, the semaphore and the
\* channel serve their waiters in turn (strong fairness), and every
\* executor invocation returns.
WalkFairness ==
    /\ WF_vars(WalkStart)
    /\ WF_vars(WalkRecv)
    /\ \A n \in 1..NumNodes :
          /\ SF_vars(AcquireOf(n))
          /\ WF_vars(ReturnOf(n))
          /\ SF_vars(SendOf(n))

SpecWalkLive == SpecWalk /\ WalkFairness

(***************************************************************************)
(* Apply and destroy executors: src/executor/engine.rs                     *)
(***************************************************************************)
Kinds == {"Resource", "DataSource", "Output"}

\* Mutation of the reversal: destroy walks the graph as built.
ReverseEdges_Forward(g) == g

\* destroy walks a copy of the graph with every edge inverted.
ReverseEdges(g) == [k \in DOMAIN g |-> <<g[k][2], g[k][1]>>]

\* A state-store lock on the address is held.  (Neither apply nor destroy
\* calls acquire_lock.)
HoldsLock(n) == \E l \in locks : l.address = n

Rpc(n, name, op) == [node |-> n, rpc |-> name, op |-> op, locked |-> HoldsLock(n)]

\* A step of task t that ends the executor with Err.
ExecutorFails(t) ==
    /\ TaskReturns(t, "Failed", "none")
    /\ UNCHANGED <<store, liveState>>

\* A step of task t that moves the executor to its next await.
ExecutorMoves(t, u) ==
    /\ tasks' = ReplaceTask(t, u)
    /\ UNCHANGED <<graphVars, walkerOwned, channel, permits>>

\* apply, resource node: backend.get_resource(..).await? reads the prior
\* state row.
ApplyGetPrior(t, ok) ==
    /\ mode = "apply" /\ t.pc = "get_prior"
    /\ IF ok
       THEN /\ ExecutorMoves(t, [t EXCEPT !.pc = "plan", !.prior = store[t.node]])
            /\ UNCHANGED <<store, liveState>>
       ELSE ExecutorFails(t)
    /\ UNCHANGED <<rpcLog, lockVars, poolVars, runVars, funVars>>

\* The fresh plan asks for the replacement sub-protocol.
NeedsReplace(requiresReplace, prior) == requiresReplace /\ prior /= "none"

\* apply: pm.plan_resource(prior, config).await?
ApplyPlan(t, outcome) ==
    /\ mode = "apply" /\ t.pc = "plan"
    /\ rpcLog' = rpcLog \cup {Rpc(t.node, "PlanResourceChange", "plan")}
    /\ IF outcome = "err"
       THEN ExecutorFails(t)
       ELSE /\ ExecutorMoves(t, [t EXCEPT !.pc =
                    IF NeedsReplace(outcome = "replace", t.prior)
                    THEN "plan_destroy" ELSE "apply"])
            /\ UNCHANGED <<store, liveState>>
    /\ UNCHANGED <<lockVars, poolVars, runVars, funVars>>

\* History: task t with the call it has just made in the replacement
\* sub-protocol or in the destroy executor, and whether the call returned
\* Ok, added to its trace.  The trace is kept while the executor runs.
Called(t, call, ok) == [t EXCEPT !.trace = Append(@, <<call, ok>>)]

\* Replacement, step 1: plan the destroy (prior -> null).
ReplacePlanDestroy(t, ok) ==
    /\ mode = "apply" /\ t.pc = "plan_destroy"
    /\ rpcLog' = rpcLog \cup {Rpc(t.node, "PlanResourceChange", "destroy")}
    /\ IF ok
       THEN /\ ExecutorMoves(t, [Called(t, "plan_destroy", ok) EXCEPT
                                     !.pc = "apply_destroy"])
            /\ UNCHANGED <<store, liveState>>
       ELSE ExecutorFails(t)
    /\ UNCHANGED <<lockVars, poolVars, runVars, funVars>>

\* Mutation of the destroy's error handling: an Err of the destroy apply
\* is dropped.
DestroyApplied_ErrorDropped(ok) == TRUE

\* pm.apply_resource(prior, None).await? -- the executor goes on only
\* after Ok.
DestroyApplied(ok) == ok

\* Replacement: apply the destroy.
ReplaceApplyDestroy(t, ok) ==
    /\ mode = "apply" /\ t.pc = "apply_destroy"
    /\ rpcLog' = rpcLog \cup {Rpc(t.node, "ApplyResourceChange", "destroy")}
    /\ IF DestroyApplied(ok)
       THEN /\ ExecutorMoves(t, [Called(t, "apply_destroy", ok) EXCEPT
                                     !.pc = "delete_row"])
            /\ UNCHANGED <<store, liveState>>
       ELSE ExecutorFails(t)
    /\ UNCHANGED <<lockVars, poolVars, runVars, funVars>>

\* Replacement: backend.delete_resource(..).await.ok() -- an error of the
\* delete is dropped and the executor goes on.
ReplaceDeleteRow(t, ok) ==
    /\ mode = "apply" /\ t.pc = "delete_row"
    /\ store' = IF ok THEN [store EXCEPT ![t.node] = "none"] ELSE store
    /\ ExecutorMoves(t, [Called(t, "delete_row", ok) EXCEPT !.pc = "plan_create"])
    /\ UNCHANGED <<liveState, rpcLog, lockVars, poolVars, runVars, funVars>>

\* Replacement, step 2: plan the create (null -> new).
ReplacePlanCreate(t, ok) ==
    /\ mode = "apply" /\ t.pc = "plan_create"
    /\ rpcLog' = rpcLog \cup {Rpc(t.node, "PlanResourceChange", "create")}
    /\ IF ok
       THEN /\ ExecutorMoves(t, [Called(t, "plan_create", ok) EXCEPT
                                     !.pc = "apply_create"])
            /\ UNCHANGED <<store, liveState>>
       ELSE ExecutorFails(t)
    /\ UNCHANGED <<lockVars, poolVars, runVars, funVars>>

ApplyOp(t) ==
    IF t.pc = "apply_create" \/ t.prior = "none" THEN "create" ELSE "update"

\* apply: pm.apply_resource(..).await? -- the create of a replacement or
\* the normal create / in-place update.  A null new_state ends the executor
\* with Ok(None); otherwise the state is to be stored.
ApplyResource(t, outcome) ==
    /\ mode = "apply" /\ t.pc \in {"apply", "apply_create"}
    /\ rpcLog' = rpcLog \cup {Rpc(t.node, "ApplyResourceChange", ApplyOp(t))}
    /\ CASE outcome = "err" -> ExecutorFails(t)
         [] outcome = "null" ->
                /\ TaskReturns(t, "Succeeded", "none")
                /\ UNCHANGED <<store, liveState>>
         [] OTHER ->
                /\ ExecutorMoves(t, [(IF t.pc = "apply_create"
                                       THEN Called(t, "apply_create", TRUE)
                                       ELSE t) EXCEPT !.pc = "insert_live"])
                /\ UNCHANGED <<store, liveState>>
    /\ UNCHANGED <<lockVars, poolVars, runVars, funVars>>

\* Mutation of the insert: the new state is not put into the map.
LiveAfterInsert_Dropped(n) == liveState

\* resource_states.insert(address, new_state)
LiveAfterInsert(n) == [liveState EXCEPT ![n] = "new"]

\* History: task t with a place its new state was written to ("live" for
\* the live-state map, "store" for the resources table) added.
Stored(t, place) == [t EXCEPT !.stored = Append(@, place)]

\* apply: the new state is inserted into the live-state map.
ApplyInsertLive(t) ==
    /\ mode = "apply" /\ t.pc = "insert_live"
    /\ liveState' = LiveAfterInsert(t.node)
    /\ ExecutorMoves(t, [Stored(t, "live") EXCEPT !.pc = "upsert"])
    /\ UNCHANGED <<store, rpcLog, lockVars, poolVars, runVars, funVars>>

\* Mutation of the upsert's error handling: an Err of the upsert is dropped.
Upserted_ErrorDropped(ok) == TRUE

\* backend.upsert_resource(&resource_state).await? -- the executor goes on
\* only after Ok.
Upserted(ok) == ok

\* apply: backend.upsert_resource(status "created").await?, then Ok.  The
\* row written (status "created", the new attributes) is "new".
ApplyUpsert(t, ok) ==
    /\ mode = "apply" /\ t.pc = "upsert"
    /\ IF Upserted(ok)
       THEN /\ store' = IF ok THEN [store EXCEPT ![t.node] = "new"] ELSE store
            /\ TaskReturnsAs(t, IF ok THEN Stored(t, "store") ELSE t,
                             "Succeeded", "new")
            /\ UNCHANGED liveState
       ELSE ExecutorFails(t)
    /\ UNCHANGED <<rpcLog, lockVars, poolVars, runVars, funVars>>

\* apply, data source node: pm.read_data_source(..).await?, then the state
\* is inserted into the live-state map and returned.
ApplyReadDataSource(t, ok) ==
    /\ mode = "apply" /\ t.pc = "read"
    /\ rpcLog' = rpcLog \cup {Rpc(t.node, "ReadDataSource", "read")}
    /\ IF ok
       THEN /\ liveState' = LiveAfterInsert(t.node)
            /\ TaskReturnsAs(t, Stored(t, "live"), "Succeeded", "new")
            /\ UNCHANGED store
       ELSE ExecutorFails(t)
    /\ UNCHANGED <<lockVars, poolVars, runVars, funVars>>

\* Output nodes in apply, every node but a resource in destroy: Ok(None).
ExecutorNoop(t) ==
    /\ mode \in {"apply", "destroy"} /\ t.pc = "output"
    /\ TaskReturns(t, "Succeeded", "none")
    /\ UNCHANGED <<engineVars, lockVars, poolVars, runVars, funVars>>

\* destroy, resource node: read the current state row; a resource that is
\* not in state is skipped with Ok(None).
DestroyGetCurrent(t, ok) ==
    /\ mode = "destroy" /\ t.pc = "get_current"
    /\ IF ~ok
       THEN ExecutorFails(t)
       ELSE IF store[t.node] = "none"
            THEN /\ TaskReturns(t, "Succeeded", "none")
                 /\ UNCHANGED <<store, liveState>>
            ELSE /\ ExecutorMoves(t, [t EXCEPT !.pc = "destroy_plan",
                                               !.prior = store[t.node]])
                 /\ UNCHANGED <<store, liveState>>
    /\ UNCHANGED <<rpcLog, lockVars, poolVars, runVars, funVars>>

\* Mutation of the destroy executor's error handling: an Err of a provider
\* call is dropped.
DestroyStepDone_ErrorDropped(ok) == TRUE

\* pm.plan_resource(..).await? and pm.apply_resource(..).await? of the
\* destroy executor: it goes on only after Ok.
DestroyStepDone(ok) == ok

\* destroy: plan the destroy (current -> null).
DestroyPlan(t, ok) ==
    /\ mode = "destroy" /\ t.pc = "destroy_plan"
    /\ rpcLog' = rpcLog \cup {Rpc(t.node, "PlanResourceChange", "destroy")}
    /\ IF DestroyStepDone(ok)
       THEN /\ ExecutorMoves(t, [Called(t, "destroy_plan", ok) EXCEPT
                                     !.pc = "destroy_apply"])
            /\ UNCHANGED <<store, liveState>>
       ELSE ExecutorFails(t)
    /\ UNCHANGED <<lockVars, poolVars, runVars, funVars>>

\* destroy: apply the destroy.
DestroyApply(t, ok) ==
    /\ mode = "destroy" /\ t.pc = "destroy_apply"
    /\ rpcLog' = rpcLog \cup {Rpc(t.node, "ApplyResourceChange", "destroy")}
    /\ IF DestroyStepDone(ok)
       THEN /\ ExecutorMoves(t, [Called(t, "destroy_apply", ok) EXCEPT
                                     !.pc = "destroy_delete"])
            /\ UNCHANGED <<store, liveState>>
       ELSE ExecutorFails(t)
    /\ UNCHANGED <<lockVars, poolVars, runVars, funVars>>

\* destroy: backend.delete_resource(..).await?, then Ok.
DestroyDeleteRow(t, ok) ==
    /\ mode = "destroy" /\ t.pc = "destroy_delete"
    /\ IF ok
       THEN /\ store' = [store EXCEPT ![t.node] = "none"]
            /\ TaskReturns(t, "Succeeded", "id")
            /\ UNCHANGED liveState
       ELSE ExecutorFails(t)
    /\ UNCHANGED <<rpcLog, lockVars, poolVars, runVars, funVars>>

\* An apply or destroy run at the call of walker.walk.
EngineInit ==
    /\ nodeCount \in 1..EngineNodes
    /\ mode \in {"apply", "destroy"}
    /\ \E g \in Graphs(nodeCount, EngineEdges) :
           edges = IF mode = "destroy" THEN ReverseEdges(g) ELSE g
    /\ maxParallelism \in 1..MaxParallelism
    /\ kind \in [Nodes -> Kinds]
    /\ store \in [Nodes -> {"none", "prior"}]
    /\ \A n \in Nodes : kind[n] /= "Resource" => store[n] = "none"
    /\ liveState = [n \in Nodes |-> "none"]
    /\ rpcLog = {}
    /\ StoreInit
    /\ PoolInit
    /\ RunsInit
    /\ NoPlan
    /\ NoCall
    /\ WalkerInit

\* A step of one task's executor.
ExecutorNext ==
    \/ \E t \in BagToSet(tasks) : \E ok \in BOOLEAN : ApplyGetPrior(t, ok)
    \/ \E t \in BagToSet(tasks) : \E outcome \in {"err", "ok", "replace"} :
           ApplyPlan(t, outcome)
    \/ \E t \in BagToSet(tasks) : \E ok \in BOOLEAN : ReplacePlanDestroy(t, ok)
    \/ \E t \in BagToSet(tasks) : \E ok \in BOOLEAN : ReplaceApplyDestroy(t, ok)
    \/ \E t \in BagToSet(tasks) : \E ok \in BOOLEAN : ReplaceDeleteRow(t, ok)
    \/ \E t \in BagToSet(tasks) : \E ok \in BOOLEAN : ReplacePlanCreate(t, ok)
    \/ \E t \in BagToSet(tasks) : \E outcome \in {"err", "null", "new"} :
           ApplyResource(t, outcome)
    \/ \E t \in BagToSet(tasks) : ApplyInsertLive(t)
    \/ \E t \in BagToSet(tasks) : \E ok \in BOOLEAN : ApplyUpsert(t, ok)
    \/ \E t \in BagToSet(tasks) : \E ok \in BOOLEAN : ApplyReadDataSource(t, ok)
    \/ \E t \in BagToSet(tasks) : ExecutorNoop(t)
    \/ \E t \in BagToSet(tasks) : \E ok \in BOOLEAN : DestroyGetCurrent(t, ok)
    \/ \E t \in BagToSet(tasks) : \E ok \in BOOLEAN : DestroyPlan(t, ok)
    \/ \E t \in BagToSet(tasks) : \E ok \in BOOLEAN : DestroyApply(t, ok)
    \/ \E t \in BagToSet(tasks) : \E ok \in BOOLEAN : DestroyDeleteRow(t, ok)

EngineNext ==
    \/ WalkStart
    \/ WalkRecv
    \/ \E t \in BagToSet(tasks) : TaskAcquire(t)
    \/ \E t \in BagToSet(tasks) : TaskSend(t)
    \/ ExecutorNext

SpecEngine == EngineInit /\ [][EngineNext]_vars

\* apply: pm.plan_resource(prior, config).await? returns a planned state
\* equal to the prior state (the change determine_action calls NoOp), with
\* or without requires_replace.  The executor does not compare the two: it
\* goes on as after any other plan.
ApplyPlanSame(t, requiresReplace) ==
    /\ mode = "apply" /\ t.pc = "plan" /\ t.prior /= "none"
    /\ rpcLog' = rpcLog \cup {Rpc(t.node, "PlanResourceChange", "same")}
    /\ ExecutorMoves(t, [t EXCEPT !.pc =
            IF NeedsReplace(requiresReplace, t.prior) THEN "plan_destroy" ELSE "apply"])
    /\ UNCHANGED <<store, liveState, lockVars, poolVars, runVars, funVars>>

\* The executors with the plans that change nothing told apart.
NoOpNext ==
    \/ EngineNext
    \/ \E t \in BagToSet(tasks) : \E requiresReplace \in BOOLEAN :
           ApplyPlanSame(t, requiresReplace)

SpecNoOp == EngineInit /\ [][NoOpNext]_vars

(***************************************************************************)
(* The apply summary: src/executor/engine.rs                               *)
(***************************************************************************)
\* The resource graph of three resources A, B, C (nodes 1, 2, 3) in which
\* B depends on A and C depends on B.
ChainEdges == << <<1, 2>>, <<2, 3>> >>

\* plan, for a configuration of which no resource has a state row: every
\* change is a Create, and the PlanSummary counts the changes by action.
ChainPlan ==
    [creates |-> Len(ChainEdges) + 1, updates |-> 0, deletes |-> 0, replaces |-> 0]

\* results.iter().filter(|r| matches!(r.status, ..)).count()
CountStatus(rs, s) ==
    BagCardinality([e \in {x \in DOMAIN rs : x.status = s} |-> rs[e]])

\* apply, after walker.walk returned: failed and skipped are counted in
\* the results, added, changed and destroyed are taken from the plan.
ApplySummary(plan, rs) ==
    [added |-> plan.creates + plan.replaces,
     changed |-> plan.updates,
     destroyed |-> plan.deletes,
     failed |-> CountStatus(rs, "Failed"),
     skipped |-> CountStatus(rs, "Skipped")]

\* An apply run of the chain at the call of walker.walk.
ChainInit ==
    /\ nodeCount = Len(ChainEdges) + 1
    /\ edges = ChainEdges
    /\ maxParallelism \in 1..MaxParallelism
    /\ mode = "apply"
    /\ kind = [n \in Nodes |-> "Resource"]
    /\ store = [n \in Nodes |-> "none"]
    /\ liveState = [n \in Nodes |-> "none"]
    /\ rpcLog = {}
    /\ StoreInit
    /\ PoolInit
    /\ RunsInit
    /\ NoPlan
    /\ NoCall
    /\ WalkerInit

\* (In the chain one task runs at a time, so the channel always has room
\* and no task waits in its send.)
ChainNext ==
    \/ WalkStart
    \/ WalkRecv
    \/ \E t \in BagToSet(tasks) : TaskAcquire(t)
    \/ \E t \in BagToSet(tasks) : \E ok \in BOOLEAN : ApplyGetPrior(t, ok)
    \/ \E t \in BagToSet(tasks) : \E outcome \in {"err", "ok"} :
           ApplyPlan(t, outcome)
    \/ \E t \in BagToSet(tasks) : \E outcome \in {"err", "null", "new"} :
           ApplyResource(t, outcome)
    \/ \E t \in BagToSet(tasks) : ApplyInsertLive(t)
    \/ \E t \in BagToSet(tasks) : \E ok \in BOOLEAN : ApplyUpsert(t, ok)

SpecChain == ChainInit /\ [][ChainNext]_vars

(***************************************************************************)
(* The apply and destroy commands from the graph build to the walker:      *)
(* src/main.rs (cmd_apply), src/executor/engine.rs (plan, apply, destroy), *)
(* src/dag/resource_graph.rs (build_resource_dag)                          *)
(***************************************************************************)
\* A dependency mention <<from, to>>: resource "to" names resource "from"
\* in depends_on or in an attribute.  A resource can name itself.
DepPairs(n) == (1..n) \X (1..n)

\* The mentions of a configuration, in the order the builder meets them.
RECURSIVE DepLists(_, _)
DepLists(n, k) ==
    IF k = 0 THEN {<<>>}
    ELSE LET shorter == DepLists(n, k - 1)
         IN shorter \cup
            {Append(s, p) : s \in {t \in shorter : Len(t) = k - 1}, p \in DepPairs(n)}

\* build_resource_dag: one edge per mention, "if from_idx != to_idx".
NotSelf(p) == p[1] /= p[2]

BuildEdges(deps) == SelectSeq(deps, NotSelf)

\* The nodes that edges of g lead to from the nodes of the set from.
Successors(g, from) == {g[k][2] : k \in {j \in DOMAIN g : g[j][1] \in from}}

RECURSIVE ReachableFrom(_, _, _)
ReachableFrom(g, frontier, seen) ==
    IF frontier = {} THEN seen
    ELSE LET next == Successors(g, frontier) \ seen
         IN ReachableFrom(g, next, seen \cup next)

\* The nodes reached from v over one edge or more.
Reach(g, v) == ReachableFrom(g, Successors(g, {v}), Successors(g, {v}))

\* petgraph::algo::is_cyclic_directed
IsCyclicDirected(n, g) == \E v \in 1..n : v \in Reach(g, v)

\* Mutation of determine_action: requires_replace decides before the prior
\* state is looked at.
DetermineAction_ReplaceFirst(prior, plannedState, requiresReplace) ==
    IF requiresReplace THEN "Replace"
    ELSE IF prior = "none" THEN "Create" ELSE "Update"

\* determine_action(prior, planned, requires_replace).  plannedState is
\* "null" or the value of the planned state; it equals the prior state
\* when it is the same value.
DetermineAction(prior, plannedState, requiresReplace) ==
    IF prior = "none"
    THEN IF plannedState /= "null" THEN "Create" ELSE "NoOp"
    ELSE IF plannedState = "null" THEN "Delete"
         ELSE IF prior = plannedState THEN "NoOp"
         ELSE IF requiresReplace THEN "Replace"
         ELSE "Update"

\* The configurations of a command: no dependency is mentioned twice.
CmdConfigs(n) ==
    {s \in DepLists(n, CmdEdges) : \A i, j \in DOMAIN s : i /= j => s[i] /= s[j]}

\* cmd_apply or cmd_destroy before the graph is built.
CmdInit ==
    /\ nodeCount \in 1..EngineNodes
    /\ mode \in {"apply", "destroy"}
    /\ \E cfg \in CmdConfigs(nodeCount) :
           edges = IF mode = "destroy" THEN ReverseEdges(BuildEdges(cfg))
                   ELSE BuildEdges(cfg)
    /\ maxParallelism \in 1..MaxParallelism
    /\ kind \in [Nodes -> Kinds]
    /\ store \in [Nodes -> {"none", "prior"}]
    /\ \A n \in Nodes : kind[n] /= "Resource" => store[n] = "none"
    /\ liveState = [n \in Nodes |-> "none"]
    /\ rpcLog = {}
    /\ StoreInit
    /\ PoolInit
    /\ RunsInit
    /\ NoPlan
    /\ NoCall
    /\ walkPc = "setup"
    /\ WalkerFresh

\* What a step before the walker leaves alone.
BeforeWalk ==
    UNCHANGED <<nodeCount, edges, maxParallelism, mode, kind, statuses, skipDep,
                tasks, permits, channel, completedCount, results, reached,
                engineVars, lockVars, poolVars, runVars, funVars>>

\* Mutation of the setup: the graph is not checked for cycles.
SetupFails_CycleUnchecked(outcome) == outcome /= "ok"

\* build_resource_dag bails on a cycle; each "?" of the setup returns the
\* Err of a provider that did not start or did not give its schema.
SetupFails(outcome) == IsCyclicDirected(nodeCount, edges) \/ outcome /= "ok"

\* plan (apply) and destroy, up to the executor closure:
\* build_resource_dag(..)? fails on a cycle, initialize_providers(..)?
\* fails when a provider does not start (handshake) or its schema cannot
\* be fetched.  destroy then calls the walker, plan goes on to its loop.
CmdSetup(outcome) ==
    /\ walkPc = "setup"
    /\ walkPc' = IF SetupFails(outcome)
                 THEN "aborted"
                 ELSE IF mode = "apply" THEN "plan" ELSE "start"
    /\ UNCHANGED planned
    /\ BeforeWalk

\* The node the plan loop is at: the first in index order without a
\* record.
NextToPlan ==
    CHOOSE n \in Nodes :
        planned[n].action = "none" /\ \A m \in 1..(n - 1) : planned[m].action /= "none"

\* plan, one iteration of "for idx in graph.node_indices()": a resource's
\* get_resource(..).await? ends the plan with Err ("store_err"); an Err of
\* plan_resource or of read_data_source is logged and the loop continues
\* without a change for the node ("err"); else the change is recorded with
\* the action determine_action gives.
PlanNode(outcome, plannedState, requiresReplace) ==
    /\ walkPc = "plan"
    /\ \E n \in Nodes : planned[n].action = "none"
    /\ LET n == NextToPlan
       IN IF kind[n] = "Output"
          THEN /\ planned' = [planned EXCEPT ![n] = Planned("Output", FALSE)]
               /\ UNCHANGED walkPc
          ELSE IF outcome = "store_err" /\ kind[n] = "Resource"
          THEN /\ walkPc' = "aborted"
               /\ UNCHANGED planned
          ELSE /\ planned' = [planned EXCEPT ![n] =
                    IF outcome = "err" THEN Planned("error", FALSE)
                    ELSE IF kind[n] = "DataSource" THEN Planned("Read", FALSE)
                    ELSE Planned(DetermineAction(store[n], plannedState, requiresReplace),
                                 requiresReplace)]
               /\ UNCHANGED walkPc
    /\ BeforeWalk

\* The number of changes of the plan with the given action.
PlanCount(action) == Cardinality({n \in Nodes : planned[n].action = action})

\* Mutation of the gate: apply goes ahead whatever the plan counts.
NoChanges_Never == FALSE

\* cmd_apply: "if plan.creates == 0 && plan.updates == 0 && plan.deletes
\* == 0 && plan.replaces == 0".
NoChanges ==
    /\ PlanCount("Create") = 0 /\ PlanCount("Update") = 0
    /\ PlanCount("Delete") = 0 /\ PlanCount("Replace") = 0

\* cmd_apply after plan returned: the "No changes" return, the
\* confirmation, then engine.apply up to the call of the walker.
PlanGate(approved) ==
    /\ walkPc = "plan"
    /\ \A n \in Nodes : planned[n].action /= "none"
    /\ walkPc' = IF NoChanges THEN "nochanges"
                 ELSE IF approved THEN "start" ELSE "cancelled"
    /\ UNCHANGED planned
    /\ BeforeWalk

\* (The builder's graphs here hold no parallel edges, so no node is
\* spawned twice, the channel always has room and no task waits in its
\* send.)
CmdNext ==
    \/ \E outcome \in {"ok", "handshake", "schema"} : CmdSetup(outcome)
    \/ \E outcome \in {"ok", "err", "store_err"} :
           \E plannedState \in {"null", "prior", "new"} :
               \E requiresReplace \in BOOLEAN :
                   PlanNode(outcome, plannedState, requiresReplace)
    \/ \E approved \in BOOLEAN : PlanGate(approved)
    \/ WalkStart
    \/ WalkRecv
    \/ \E t \in BagToSet(tasks) : TaskAcquire(t)
    \/ ExecutorNext

SpecCmd == CmdInit /\ [][CmdNext]_vars

(***************************************************************************)
(* The resource graph and its orderings: src/dag/resource_graph.rs         *)
(*                                                                         *)
(* A configuration lists its resources in some order; a resource is known  *)
(* by its address (here the rank of the address among the addresses) and   *)
(* names the resources it depends on, in depends_on or in attributes.      *)
(***************************************************************************)
\* The listings of the addresses 1..n.
Listings(n) ==
    {l \in [1..n -> 1..n] : \A i, j \in 1..n : i /= j => l[i] /= l[j]}

\* The mentions of resource a in a list of mentions <<from, to>>, in order.
RECURSIVE MentionsOf(_, _)
MentionsOf(ms, a) ==
    IF ms = <<>> THEN <<>>
    ELSE (IF Head(ms)[2] = a THEN <<Head(ms)[1]>> ELSE <<>>) \o MentionsOf(Tail(ms), a)

\* The configurations of n resources with at most DagMentions mentions.
DagConfigs(n) ==
    {[listing |-> l, deps |-> [a \in 1..n |-> MentionsOf(ms, a)]] :
        l \in Listings(n), ms \in DepLists(n, DagMentions)}

\* node_map: the node index of an address is its place in the listing.
IndexOf(cfg, a) == CHOOSE i \in DOMAIN cfg.listing : cfg.listing[i] = a

\* build_resource_dag, second loop: for each resource in listing order and
\* each of its mentions in order, graph.add_edge(from_idx, to_idx) "if
\* from_idx != to_idx".
RECURSIVE EdgesOfResource(_, _, _)
EdgesOfResource(cfg, i, ds) ==
    IF ds = <<>> THEN <<>>
    ELSE (IF IndexOf(cfg, Head(ds)) /= i THEN << <<IndexOf(cfg, Head(ds)), i>> >> ELSE <<>>)
         \o EdgesOfResource(cfg, i, Tail(ds))

RECURSIVE EdgesFrom(_, _)
EdgesFrom(cfg, i) ==
    IF i > Len(cfg.listing) THEN <<>>
    ELSE EdgesOfResource(cfg, i, cfg.deps[cfg.listing[i]]) \o EdgesFrom(cfg, i + 1)

GraphOf(cfg) == EdgesFrom(cfg, 1)

\* The result of a function of the module.
Result(fn, ok, graph, order, names) ==
    [fn |-> fn, ok |-> ok, graph |-> graph, order |-> order, names |-> names]

\* "if petgraph::algo::is_cyclic_directed(&graph)"
Rejected(n, g) == IsCyclicDirected(n, g)

\* build_resource_dag: Ok with the graph, or on a cycle
\* bail!("Circular dependency detected in resource graph"), a message that
\* holds no address.
BuildResourceDag(cfg) ==
    LET g == GraphOf(cfg)
    IN IF Rejected(Len(cfg.listing), g)
       THEN Result("build_resource_dag", FALSE, <<>>, <<>>, {})
       ELSE Result("build_resource_dag", TRUE, g, <<>>, {})

\* petgraph's neighbors(v): the targets of v's outgoing edges, the edge
\* added last first.
RECURSIVE NeighborsFrom(_, _, _)
NeighborsFrom(g, v, k) ==
    IF k = 0 THEN <<>>
    ELSE (IF g[k][1] = v THEN <<g[k][2]>> ELSE <<>>) \o NeighborsFrom(g, v, k - 1)

Neighbors(g, v) == NeighborsFrom(g, v, Len(g))

\* petgraph::algo::toposort, the depth-first loop on one stack: a node met
\* for the first time is marked discovered and its undiscovered neighbors
\* are pushed; met again it is popped and, once, put on the finish stack.
RECURSIVE DfsLoop(_, _)
DfsLoop(g, st) ==
    IF st.stack = <<>> THEN st
    ELSE LET nx == st.stack[Len(st.stack)]
             disc == st.disc \cup {nx}
             Fresh(x) == x \notin disc
         IN IF nx \notin st.disc
            THEN DfsLoop(g, [st EXCEPT !.disc = disc,
                                       !.stack = @ \o SelectSeq(Neighbors(g, nx), Fresh)])
            ELSE DfsLoop(g, [st EXCEPT
                     !.stack = SubSeq(@, 1, Len(@) - 1),
                     !.fin = @ \cup {nx},
                     !.out = IF nx \in st.fin THEN @ ELSE Append(@, nx)])

\* toposort: "for i in g.node_identifiers()", skipping discovered nodes.
RECURSIVE DfsAll(_, _, _, _)
DfsAll(g, n, i, st) ==
    IF i > n THEN st
    ELSE IF i \in st.disc THEN DfsAll(g, n, i + 1, st)
    ELSE DfsAll(g, n, i + 1, DfsLoop(g, [st EXCEPT !.stack = <<i>>]))

Reverse(s) == [i \in 1..Len(s) |-> s[Len(s) + 1 - i]]

\* toposort of an acyclic graph: the finish stack, reversed.
Toposort(n, g) ==
    Reverse(DfsAll(g, n, 1, [stack |-> <<>>, disc |-> {}, fin |-> {}, out |-> <<>>]).out)

\* topological_order(graph) of a graph the builder returned.
TopologicalOrder(n, g) == Toposort(n, g)

\* Mutation of reverse_topological_order: order.reverse() is left out.
ReverseTopologicalOrder_NotReversed(n, g) == TopologicalOrder(n, g)

\* reverse_topological_order: topological_order, then order.reverse().
ReverseTopologicalOrder(n, g) == Reverse(TopologicalOrder(n, g))

\* build_dag, the edge loop: for each module and each entry of its
\* depends_on, graph.add_edge(from_idx, to_idx), an entry naming the module
\* itself included.
RECURSIVE ModuleEdgesOf(_, _, _)
ModuleEdgesOf(cfg, i, ds) ==
    IF ds = <<>> THEN <<>>
    ELSE << <<IndexOf(cfg, Head(ds)), i>> >> \o ModuleEdgesOf(cfg, i, Tail(ds))

RECURSIVE ModuleEdgesFrom(_, _)
ModuleEdgesFrom(cfg, i) ==
    IF i > Len(cfg.listing) THEN <<>>
    ELSE ModuleEdgesOf(cfg, i, cfg.deps[cfg.listing[i]]) \o ModuleEdgesFrom(cfg, i + 1)

ModuleGraphOf(cfg) == ModuleEdgesFrom(cfg, 1)

\* build_dag: Ok with the module graph, or on a cycle
\* bail!("Circular dependency detected in module graph").
BuildDag(cfg) ==
    LET g == ModuleGraphOf(cfg)
    IN IF IsCyclicDirected(Len(cfg.listing), g)
       THEN Result("build_dag", FALSE, <<>>, <<>>, {})
       ELSE Result("build_dag", TRUE, g, <<>>, {})

\* resolve_batches: "*in_degree.entry(to).or_insert(0) += 1" for each edge.
InDegreeOf(g, v) == Cardinality({k \in DOMAIN g : g[k][2] = v})

\* resolve_batches: adjacency[v], the targets of v's edges in edge order.
Adjacency(g, v) ==
    LET From(e) == e[1] = v
        es == SelectSeq(g, From)
    IN [k \in 1..Len(es) |-> es[k][2]]

\* Mutation of the readiness test: a neighbor is queued at every decrement.
Ready_Always(deg) == TRUE

\* "if *deg == 0"
Ready(deg) == deg = 0

\* "for &neighbor in neighbors { *deg -= 1; if *deg == 0 { push_back } }"
RECURSIVE ReleaseNeighbors(_, _)
ReleaseNeighbors(ns, st) ==
    IF ns = <<>> THEN st
    ELSE LET v == Head(ns)
             d == st.deg[v] - 1
         IN ReleaseNeighbors(Tail(ns), [st EXCEPT !.deg[v] = d,
                                                  !.next = IF Ready(d) THEN Append(@, v) ELSE @])

\* "while let Some(node) = queue.pop_front()": the node's name joins the
\* batch and its neighbors are released.
RECURSIVE DrainQueue(_, _, _, _)
DrainQueue(g, names, queue, st) ==
    IF queue = <<>> THEN st
    ELSE DrainQueue(g, names, Tail(queue),
                    ReleaseNeighbors(Adjacency(g, Head(queue)),
                            [st EXCEPT !.batch = Append(@, names[Head(queue)])]))

RECURSIVE InsertSorted(_, _)
InsertSorted(s, x) ==
    IF s = <<>> \/ x < Head(s) THEN <<x>> \o s
    ELSE <<Head(s)>> \o InsertSorted(Tail(s), x)

\* batch.sort()
RECURSIVE SortBatch(_)
SortBatch(s) ==
    IF s = <<>> THEN <<>>
    ELSE InsertSorted(SortBatch(SubSeq(s, 1, Len(s) - 1)), s[Len(s)])

\* "while !queue.is_empty()": the queue is drained into one sorted batch
\* and replaced by next_queue.
RECURSIVE BatchLoop(_, _, _, _, _)
BatchLoop(g, names, queue, deg, batches) ==
    IF queue = <<>> THEN batches
    ELSE LET st == DrainQueue(g, names, queue,
                              [deg |-> deg, batch |-> <<>>, next |-> <<>>])
         IN BatchLoop(g, names, st.next, st.deg, Append(batches, SortBatch(st.batch)))

\* resolve_batches(graph); visit is the order in which the in_degree
\* HashMap is iterated to find the nodes of degree 0.
ResolveBatches(n, g, names, visit) ==
    LET deg == [v \in 1..n |-> InDegreeOf(g, v)]
        Root(v) == deg[v] = 0
    IN BatchLoop(g, names, SelectSeq(visit, Root), deg, <<>>)

\* A configuration is about to be handed to the builder.
DagInit ==
    /\ nodeCount = 0
    /\ edges = <<>>
    /\ maxParallelism = 1
    /\ mode = "dag"
    /\ kind = <<>>
    /\ store = <<>>
    /\ liveState = <<>>
    /\ rpcLog = {}
    /\ StoreInit
    /\ PoolInit
    /\ RunsInit
    /\ NoPlan
    /\ \E n \in 1..DagNodes : input \in DagConfigs(n)
    /\ output = NoResult
    /\ WalkerInit

DagStep == UNCHANGED <<walkVars, engineVars, lockVars, poolVars, runVars, input>>

\* build_resource_dag(workspace, ..)
CallBuildResourceDag ==
    /\ output.fn = "none"
    /\ output' = BuildResourceDag(input)
    /\ DagStep

\* topological_order(&graph) on the graph the builder returned.
CallTopologicalOrder ==
    /\ output.fn = "build_resource_dag" /\ output.ok
    /\ output' = Result("topological_order", TRUE, output.graph,
                        TopologicalOrder(Len(input.listing), output.graph), {})
    /\ DagStep

\* reverse_topological_order(&graph) on the graph the builder returned.
CallReverseTopologicalOrder ==
    /\ output.fn = "build_resource_dag" /\ output.ok
    /\ output' = Result("reverse_topological_order", TRUE, output.graph,
                        ReverseTopologicalOrder(Len(input.listing), output.graph), {})
    /\ DagStep

\* build_dag(&config), the configuration read as modules.
CallBuildDag ==
    /\ output.fn = "none"
    /\ output' = BuildDag(input)
    /\ DagStep

\* resolve_batches(&graph) on the graph build_dag returned; the Vec of
\* batches is the result's order.
CallResolveBatches ==
    /\ output.fn = "build_dag" /\ output.ok
    /\ \E visit \in Listings(Len(input.listing)) :
           output' = Result("resolve_batches", TRUE, output.graph,
                            ResolveBatches(Len(input.listing), output.graph,
                                           input.listing, visit), {})
    /\ DagStep

DagNext ==
    \/ CallBuildResourceDag
    \/ CallTopologicalOrder
    \/ CallReverseTopologicalOrder
    \/ CallBuildDag
    \/ CallResolveBatches

SpecDag == DagInit /\ [][DagNext]_vars

(***************************************************************************)
(* The resources table: src/state/sqlite.rs, src/state/schema.rs           *)
(*                                                                         *)
(* A row is [id, workspace, address, providerSource, status, attributes,   *)
(* createdAt, updatedAt].  providerSource stands for the columns that      *)
(* describe the resource (module_path, resource_type, resource_name,       *)
(* resource_mode, provider_source, index_key), attributes for those that   *)
(* hold its state (attributes_json, sensitive_attrs, schema_version); the  *)
(* statements treat the columns of each group alike.                       *)
(***************************************************************************)
RowKeys == 1..RowAddresses

RowIdSet == 1..RowIds

Values == 1..RowValues

Statuses == {"created", "tainted"}

\* The ResourceState records a caller can hand to upsert_resource at
\* instant c.
Records(c) ==
    [id : RowIdSet, workspace : WorkspaceIds, address : RowKeys,
     providerSource : Values, status : Statuses, attributes : Values,
     createdAt : {Rfc3339(c)}, updatedAt : {Rfc3339(c)}]

\* UNIQUE(workspace_id, address)
RowAt(rows, w, a) == {r \in rows : r.workspace = w /\ r.address = a}

\* What a store method returned: Ok or Err, and for import_tfstate the
\* ImportResult (imported, and one warning per skipped instance).
RowResult(fn, ok, key, imported, warnings) ==
    [fn |-> fn, ok |-> ok, key |-> key, imported |-> imported, warnings |-> warnings]

NoRowResult == RowResult("none", TRUE, 0, 0, <<>>)

\* Mutation of the upsert: created_at is overwritten as well.
Updated_CreatedAtToo(old, rec) == [rec EXCEPT !.id = old.id, !.providerSource = old.providerSource]

\* ON CONFLICT(workspace_id, address) DO UPDATE SET status, attributes_json,
\* sensitive_attrs, schema_version, updated_at = excluded.*
Updated(old, rec) ==
    [old EXCEPT !.status = rec.status, !.attributes = rec.attributes,
                !.updatedAt = rec.updatedAt]

\* The table after INSERT .. ON CONFLICT(workspace_id, address) DO UPDATE:
\* a row of the key is updated in place; else the record is inserted,
\* unless its id is taken (id TEXT PRIMARY KEY) or its workspace is missing
\* (FOREIGN KEY), which fail the statement.
RowsAfterUpsert(rows, ws, rec) ==
    LET old == RowAt(rows, rec.workspace, rec.address)
    IN IF old /= {}
       THEN (rows \ old) \cup {Updated(r, rec) : r \in old}
       ELSE IF rec.workspace \notin ws \/ \E r \in rows : r.id = rec.id
            THEN rows
            ELSE rows \cup {rec}

UpsertOk(rows, ws, rec) ==
    \/ RowAt(rows, rec.workspace, rec.address) /= {}
    \/ rec.workspace \in ws /\ \A r \in rows : r.id /= rec.id

\* upsert_resource(resource)
UpsertResource(rec) ==
    /\ store' = RowsAfterUpsert(store, workspaces, rec)
    /\ output' = RowResult("upsert_resource", UpsertOk(store, workspaces, rec),
                           rec.address, 0, <<>>)
    /\ UNCHANGED <<liveState, rpcLog, lockVars, input>>

\* An instance of a snapshot: the address import_tfstate formats for it
\* ("type.name", or "type.name[key]" when the resource has several
\* instances) and its attributes.
Instances == [address : RowKeys, attributes : Values]

\* The snapshots: up to SnapshotLen instances of one provider, in the
\* order of state.resources and their instances.
Snapshots ==
    [provider : Values,
     instances : UNION {[1..k -> Instances] : k \in 0..SnapshotLen}]

\* uuid::Uuid::new_v4(): an id no row carries.
FreshId(rows) == CHOOSE i \in 1..(Cardinality(rows) + 1) : \A r \in rows : r.id /= i

\* The row import_tfstate inserts for an instance.
ImportedRow(rows, w, snap, inst, now) ==
    [id |-> FreshId(rows), workspace |-> w, address |-> inst.address,
     providerSource |-> snap.provider, status |-> "created",
     attributes |-> inst.attributes, createdAt |-> now, updatedAt |-> now]

\* Mutation of the import: a row of the key is overwritten.
RowsAfterInsert_Overwriting(rows, row) ==
    (rows \ RowAt(rows, row.workspace, row.address)) \cup {row}

\* INSERT .. ON CONFLICT(workspace_id, address) DO NOTHING
RowsAfterInsert(rows, row) ==
    IF RowAt(rows, row.workspace, row.address) /= {} THEN rows ELSE rows \cup {row}

\* import_tfstate, the loop over the instances from the k-th on: the table
\* and the ImportResult so far.  "Ok(rows) if rows > 0 => imported += 1",
\* otherwise skipped with the warning "Skipped {address} (already exists)".
RECURSIVE ImportFrom(_, _, _, _, _)
ImportFrom(acc, w, snap, k, now) ==
    IF k > Len(snap.instances) THEN acc
    ELSE LET inst == snap.instances[k]
             after == RowsAfterInsert(acc.rows, ImportedRow(acc.rows, w, snap, inst, now))
         IN ImportFrom([rows |-> after,
                        imported |-> acc.imported + (IF after /= acc.rows THEN 1 ELSE 0),
                        warnings |-> IF after /= acc.rows THEN acc.warnings
                                     ELSE Append(acc.warnings, inst.address)],
                       w, snap, k + 1, now)

ImportTfstateResult(rows, w, snap, now) ==
    ImportFrom([rows |-> rows, imported |-> 0, warnings |-> <<>>], w, snap, 1, now)

\* import_tfstate(workspace_id, state_json) on a parsed snapshot; "let now =
\* Self::now()" is read once.
ImportTfstate(w, snap) ==
    LET res == ImportTfstateResult(store, w, snap, Rfc3339(clock))
    IN /\ w \in workspaces
       /\ store' = res.rows
       /\ output' = RowResult("import_tfstate", TRUE, 0, res.imported, res.warnings)
       /\ UNCHANGED <<liveState, rpcLog, lockVars, input>>

\* An empty table in a database that holds the workspaces.
RowsInit ==
    /\ nodeCount = 0
    /\ edges = <<>>
    /\ maxParallelism = 1
    /\ mode = "rows"
    /\ kind = <<>>
    /\ store = {}
    /\ liveState = <<>>
    /\ rpcLog = {}
    /\ locks = {}
    /\ workspaces = WorkspaceIds
    /\ nextWorkspace = NumWorkspaces + 1
    /\ nextLockId = 1
    /\ clock = 0
    /\ lastOp = NoOp
    /\ PoolInit
    /\ RunsInit
    /\ NoPlan
    /\ input = <<>>
    /\ output = NoRowResult
    /\ WalkerInit

\* Time passes between two calls.
RowTick ==
    /\ clock < RowTicks
    /\ clock' = clock + 1
    /\ UNCHANGED <<locks, workspaces, nextWorkspace, nextLockId, lastOp>>

RowsNext ==
    \/ \E rec \in Records(clock) :
           UpsertResource(rec) /\ UNCHANGED <<walkVars, poolVars, runVars>>
    \/ \E w \in WorkspaceIds : \E snap \in Snapshots :
           ImportTfstate(w, snap) /\ UNCHANGED <<walkVars, poolVars, runVars>>
    \/ RowTick /\ UNCHANGED <<walkVars, engineVars, poolVars, runVars, funVars>>

SpecRows == RowsInit /\ [][RowsNext]_vars

(***************************************************************************)
(* Clients of the state store calling the lock methods in any order.       *)
(***************************************************************************)
LockInit ==
    /\ nodeCount = 0
    /\ edges = <<>>
    /\ maxParallelism = 1
    /\ mode = "locks"
    /\ kind = <<>>
    /\ store = <<>>
    /\ liveState = <<>>
    /\ rpcLog = {}
    /\ StoreInit
    /\ PoolInit
    /\ RunsInit
    /\ NoPlan
    /\ NoCall
    /\ WalkerInit

LockNext ==
    \/ \E a \in Addresses : \E w \in WorkspaceIds :
           \E ttl \in Ttls : \E skew \in {0, 1} :
               AcquireLock(a, w, ttl, skew) /\ UNCHANGED <<walkVars, engineVars, poolVars, runVars, funVars>>
    \/ \E id \in LockIds : ReleaseLock(id) /\ UNCHANGED <<walkVars, engineVars, poolVars, runVars, funVars>>
    \/ \E a \in Addresses : \E w \in WorkspaceIds :
           ForceUnlock(a, w) /\ UNCHANGED <<walkVars, engineVars, poolVars, runVars, funVars>>
    \/ \E a \in Addresses : \E w \in WorkspaceIds :
           IsLocked(a, w) /\ UNCHANGED <<walkVars, engineVars, poolVars, runVars, funVars>>
    \/ CreateWorkspace /\ UNCHANGED <<walkVars, engineVars, poolVars, runVars, funVars>>
    \/ \E w \in WorkspaceIds : DeleteWorkspace(w) /\ UNCHANGED <<walkVars, engineVars, poolVars, cmds, funVars>>
    \/ Tick /\ UNCHANGED <<walkVars, engineVars, poolVars, runVars, funVars>>

SpecLock == LockInit /\ [][LockNext]_vars

(***************************************************************************)
(* Callers of the provider manager calling its methods in any order.       *)
(***************************************************************************)
PoolSpecInit ==
    /\ nodeCount = 0
    /\ edges = <<>>
    /\ maxParallelism = 1
    /\ mode = "pool"
    /\ kind = <<>>
    /\ store = <<>>
    /\ liveState = <<>>
    /\ rpcLog = {}
    /\ StoreInit
    /\ PoolInit
    /\ RunsInit
    /\ NoPlan
    /\ NoCall
    /\ WalkerInit

PoolStep(A) == A /\ UNCHANGED <<walkVars, engineVars, lockVars, runVars, funVars>>

PoolNext ==
    \/ \E c \in Clients : \E s \in Sources : PoolStep(GetConnectionCall(c, s))
    \/ \E c \in Clients : \E s \in Sources : PoolStep(GetSchemaCall(c, s))
    \/ \E c \in Clients : PoolStep(GetConnectionCheck(c))
    \/ \E c \in Clients : \E ok \in BOOLEAN : PoolStep(GetConnectionStart(c, ok))
    \/ \E c \in Clients : PoolStep(GetConnectionInsert(c))
    \/ \E c \in Clients : \E s \in Sources : PoolStep(ConfigureProviderCall(c, s))
    \/ \E c \in Clients : PoolStep(WriteLookup(c))
    \/ \E c \in Clients : \E ok \in BOOLEAN : PoolStep(WriteReturn(c, ok))
    \/ \E c \in Clients : \E s \in Sources : PoolStep(RpcCall(c, s))
    \/ \E c \in Clients : PoolStep(RpcLookup(c))
    \/ \E c \in Clients : PoolStep(RpcReturn(c))

SpecPool == PoolSpecInit /\ [][PoolNext]_vars

(***************************************************************************)
(* Invocations of apply and destroy on one database.                       *)
(***************************************************************************)
RunsSpecInit ==
    /\ nodeCount = 0
    /\ edges = <<>>
    /\ maxParallelism = 1
    /\ mode = "runs"
    /\ kind = <<>>
    /\ store = <<>>
    /\ liveState = <<>>
    /\ rpcLog = {}
    /\ StoreInit
    /\ PoolInit
    /\ RunsInit
    /\ NoPlan
    /\ NoCall
    /\ WalkerInit

RunStep(A) == A /\ UNCHANGED <<walkVars, engineVars, lockVars, poolVars, funVars>>

RunsNext ==
    \/ CreateWorkspace /\ UNCHANGED <<walkVars, engineVars, poolVars, runVars, funVars>>
    \/ \E w \in WorkspaceIds :
           DeleteWorkspace(w) /\ UNCHANGED <<walkVars, engineVars, poolVars, cmds, funVars>>
    \/ \E i \in Cmds : \E op \in {"apply", "destroy"} :
           \E found \in workspaces \cup {0} : RunStep(CmdInvoke(i, op, found))
    \/ \E i \in Cmds : \E outcome \in {"error", "nothing", "cancelled", "approved"} :
           RunStep(CmdPlan(i, outcome))
    \/ \E i \in Cmds : RunStep(CmdStartRun(i))
    \/ \E i \in Cmds : \E result \in {"err", "failed", "succeeded"} :
           RunStep(CmdEngine(i, result))
    \/ \E i \in Cmds : RunStep(CmdCompleteRun(i))

SpecRuns == RunsSpecInit /\ [][RunsNext]_vars

(***************************************************************************)
(* Properties of the walker.                                               *)
(***************************************************************************)
\* A task that has left "acquire" has called its executor.
Started(t) == t.pc /= "acquire"

\* The task's executor has been called and has not returned.
Executing(t) == t.pc \notin {"acquire", "send", "done"}

\* The executor of node n has been invoked by some task.
Invoked(n) == \E t \in BagToSet(tasks) : t.node = n /\ Started(t)

RECURSIVE CopiesOf(_, _)
CopiesOf(ts, bag) ==
    IF ts = {} THEN 0
    ELSE LET t == CHOOSE x \in ts : TRUE
         IN CopiesIn(t, bag) + CopiesOf(ts \ {t}, bag)

\* Executors that have been invoked and have not yet returned.
ExecutingCount == CopiesOf({t \in BagToSet(tasks) : Executing(t)}, tasks)

\* Nodes with an executor run that returned Err.
ExecutorFailed(n) == \E t \in BagToSet(tasks) : t.node = n /\ t.res = "Failed"

TerminalStatuses == {"Succeeded", "Failed", "Skipped"}

\* C1: a node's executor is invoked only after every one of its direct
\* dependencies has been marked Succeeded by the walker in this walk.
C1_InvokedOnlyAfterDependenciesSucceeded ==
    \A t \in BagToSet(tasks) :
        Started(t) => Dependencies(t.node) \subseteq reached

\* A node with two distinct dependencies is executing.
C1_Witness ==
    \E t \in BagToSet(tasks) :
        t.pc = "exec" /\ Cardinality(Dependencies(t.node)) = 2

\* C2: the number of executors invoked and not yet returned never exceeds
\* max_parallelism.
C2_AtMostMaxParallelismExecuting == ExecutingCount <= maxParallelism

\* The bound bites: max_parallelism executors run while another spawned
\* task waits for a permit.
C2_Witness ==
    /\ maxParallelism = 2
    /\ ExecutingCount = 2
    /\ \E t \in BagToSet(tasks) : t.pc = "acquire"

\* C3 (as claimed): once a node is recorded Failed, each of its transitive
\* dependents is Skipped with a reason naming a failed dependency, and the
\* dependent's executor has not been invoked.
C3_FailureSkipsEveryTransitiveDependent ==
    \A n \in Nodes :
        statuses[n] = "Failed" =>
            \A d \in CollectTransitiveDependents(n) :
                /\ statuses[d] = "Skipped"
                /\ skipDep[d] \in Ancestors(d)
                /\ ~Invoked(d)

\* C4 (as claimed): when walk has returned, every node that does not
\* transitively depend on a failed node has finished Succeeded or Failed.
C4_IndependentNodesFinishBeforeReturn ==
    walkPc = "returned" =>
        \A n \in Nodes :
            (\A a \in Ancestors(n) : statuses[a] /= "Failed" /\ ~ExecutorFailed(a))
                => statuses[n] \in {"Succeeded", "Failed"}

\* C5 (as claimed): when walk has returned, every node is Succeeded, Failed
\* or Skipped; none is still Pending or Running.
C5_AllNodesTerminalAtReturn ==
    walkPc = "returned" => \A n \in Nodes : statuses[n] \in TerminalStatuses

\* The number of entries of node n in the result list.
ResultEntries(n) == CopiesOf({e \in BagToSet(results) : e.node = n}, results)

\* C31: the result list returned by walk holds exactly one entry per
\* graph node, so its Succeeded, Failed and Skipped entries together
\* number node_count.
C31_OneResultPerNode ==
    walkPc = "returned" =>
        /\ \A n \in Nodes : ResultEntries(n) = 1
        /\ BagCardinality(results) = nodeCount

\* The part of C31 that holds: the entries of the returned list are as
\* many as walk counted, node_count or more.
C31_ResultsAreCounted ==
    /\ BagCardinality(results) = completedCount
    /\ (walkPc = "returned" /\ nodeCount > 0) => BagCardinality(results) >= nodeCount

\* C32: for every acyclic graph and every max_parallelism value accepted
\* by DagWalker::new, walk eventually returns, provided every executor
\* invocation eventually returns.
C32_WalkEventuallyReturns == <>(walkPc = "returned")

\* The part of C32 that holds: with at least one permit the walk returns.
C32_ReturnsWithAPermit == (maxParallelism >= 1) => <>(walkPc = "returned")

\* Row l is removed in this step by one of the three ways of the claim:
\* release_lock with its lock id, force_unlock of its key, or the reaping
\* of acquire_lock or is_locked once its expires_at has passed.
RemovedAsClaimed(l) ==
    \/ lastOp'.op = "release" /\ lastOp'.lockId = l.lockId
    \/ lastOp'.op = "force_unlock" /\ ForceUnlock(l.address, l.workspace)
    \/ /\ lastOp'.op \in {"acquire", "is_locked"}
       /\ l.expiresAt /= Null
       /\ ParseTime(l.expiresAt) < clock

\* C35 (as claimed): a lock stays in place until it is released by
\* release_lock with its lock id, removed by force_unlock, or its
\* expires_at has passed; a lock acquired without a TTL is never removed by
\* the expiry reaping of acquire_lock or is_locked.
C35_OriginalStep == \A l \in locks \ locks' : RemovedAsClaimed(l)

C35_LockStaysUntilReleased == [][C35_OriginalStep]_vars

\* C35 (amended): a lock stays in place until it is released by
\* release_lock with its lock id, removed by force_unlock, its expires_at
\* has passed, or its workspace is deleted; a lock acquired without a TTL
\* is never removed by the expiry reaping of acquire_lock or is_locked.
C35_Step ==
    \A l \in locks \ locks' :
        \/ RemovedAsClaimed(l)
        \/ lastOp'.op = "delete_workspace" /\ l.workspace \notin workspaces'

C35_LockStaysUntilReleasedOrWorkspaceDeleted == [][C35_Step]_vars

\* is_locked has just run its reaping, some time after the start, and
\* found the lock that was acquired without a TTL.
C35_Witness ==
    /\ lastOp.op = "is_locked" /\ lastOp.ok
    /\ clock > 0
    /\ \E l \in locks : l.expiresAt = Null

(***************************************************************************)
(* Properties of the apply and destroy executors.                          *)
(***************************************************************************)
\* C6: in an apply walk the new state of a node is in the live-state map
\* when the walker has marked the node Succeeded, every dependency is
\* marked Succeeded before a dependent's executor is called, and that
\* executor finds the state of each such dependency in the map.
C6_DependentSeesNewStateOfDependencies ==
    mode = "apply" =>
        /\ \A n \in Nodes : MarkedWithState(n) => liveState[n] = "new"
        /\ \A t \in BagToSet(tasks) :
               Started(t) =>
                   /\ Dependencies(t.node) \subseteq reached
                   /\ t.due \subseteq t.obs

\* A dependent resource is executing after a dependency finished with a new
\* state in the same run, and it read that state.
C6_Witness ==
    /\ mode = "apply"
    /\ \E t \in BagToSet(tasks) :
           /\ t.pc = "plan"
           /\ t.due /= {}
           /\ t.obs = Dependencies(t.node)

\* C7 (as claimed): every ApplyResourceChange RPC of apply or destroy is
\* issued while the run holds a state-store lock on the resource's address.
C7_LockHeldAtEveryApplyRpc ==
    \A e \in rpcLog : e.rpc = "ApplyResourceChange" => e.locked

(***************************************************************************)
(* Properties of the lock methods.                                         *)
(***************************************************************************)
\* The row's expiry is not earlier than instant c: it has none, or the
\* instant its text denotes is c or later.
Live(l, c) == l.expiresAt = Null \/ ParseTime(l.expiresAt) >= c

\* The step is a call of acquire_lock on key (a, w).
AcquireCalled(a, w) ==
    /\ lastOp'.op = "acquire" /\ lastOp'.address = a /\ lastOp'.workspace = w
    /\ \E ttl \in Ttls : \E skew \in {0, 1} : AcquireLock(a, w, ttl, skew)

\* The step is a call of release_lock(id) that returns Ok.
ReleaseSucceeds(id) == lastOp'.op = "release" /\ lastOp'.ok /\ ReleaseLock(id)

UniqueKeys(rows) ==
    \A l1 \in rows : \A l2 \in rows :
        (l1.address = l2.address /\ l1.workspace = l2.workspace) => l1 = l2

C8_Step ==
    /\ UniqueKeys(locks')
    /\ \A a \in Addresses : \A w \in WorkspaceIds :
           AcquireCalled(a, w) =>
               LET held == {l \in RowsOf(a, w, locks) : Live(l, clock)}
               IN  IF held /= {}
                   THEN ~lastOp'.ok /\ RowsOf(a, w, locks') = held
                   ELSE w \in workspaces =>
                            /\ lastOp'.ok
                            /\ \E l \in locks' :
                                   /\ RowsOf(a, w, locks') = {l}
                                   /\ l.lockId = nextLockId

\* C8: the table never holds two rows of one (address, workspace) key; an
\* acquire_lock on a key that a lock not yet expired holds fails and leaves
\* that lock, and one on a key no such lock holds succeeds with a single
\* new row: of two calls on a free key the first succeeds, the second fails.
C8_LocksMutuallyExclusive == [][C8_Step]_vars

\* An acquire_lock has just failed on a key that another lock holds.
C8_Witness ==
    /\ lastOp.op = "acquire" /\ ~lastOp.ok /\ ~lastOp.reaped
    /\ lastOp.workspace \in workspaces
    /\ RowsOf(lastOp.address, lastOp.workspace, locks) /= {}

C9_Step ==
    /\ \A id \in LockIds :
           ReleaseSucceeds(id) =>
               \A l \in locks :
                   l.lockId = id => RowsOf(l.address, l.workspace, locks') = {}
    /\ \A a \in Addresses : \A w \in WorkspaceIds :
           IF AcquireCalled(a, w)
           THEN (w \in workspaces /\
                 (RowsOf(a, w, locks) = {} \/
                  (lastOp.op = "release" /\ lastOp.ok /\
                   lastOp.address = a /\ lastOp.workspace = w)))
                    => lastOp'.ok
           ELSE RowsOf(a, w, locks') \subseteq RowsOf(a, w, locks)

\* C9: a release_lock that succeeds leaves no row of the lock's key, no
\* step but an acquire_lock of the key adds one, and the acquire_lock of a
\* key without a row succeeds, so the next acquire_lock after a successful
\* release succeeds (while the key's workspace exists).
C9_AcquireAfterReleaseSucceeds == [][C9_Step]_vars

\* An acquire_lock has just succeeded on the key released by the call before.
C9_Witness == lastOp.op = "acquire" /\ lastOp.ok /\ lastOp.afterRelease

C10_Step ==
    \A a \in Addresses : \A w \in WorkspaceIds :
        AcquireCalled(a, w) =>
            /\ \A l \in locks' : Live(l, clock)
            /\ (~lastOp'.ok /\ w \in workspaces) =>
                   \E l \in RowsOf(a, w, locks) : Live(l, clock)

\* C10: an acquire_lock leaves no row whose expires_at is earlier than the
\* instant it read, and it fails on a key of an existing workspace only if
\* a lock not yet expired holds the key.
C10_ExpiredLockNeverBlocksAcquire == [][C10_Step]_vars

\* An acquire_lock has just succeeded on a key whose expired row it reaped.
C10_Witness == lastOp.op = "acquire" /\ lastOp.ok /\ lastOp.reaped


\* The step is a call of release_lock(id).
ReleaseCalled(id) ==
    lastOp'.op = "release" /\ lastOp'.lockId = id /\ ReleaseLock(id)

C11_Step ==
    \A id \in LockIds :
        ReleaseCalled(id) =>
            IF \E l \in locks : l.lockId = id
            THEN lastOp'.ok
            ELSE ~lastOp'.ok /\ locks' = locks

\* C11: a release_lock(id) called when no row has that lock_id fails and
\* leaves the table as it was; it succeeds when such a row exists.
C11_ReleaseOfMissingLockFails == [][C11_Step]_vars

\* A release_lock has just failed for a lock_id that an earlier
\* acquire_lock returned: the row was released, unlocked or reaped since.
C11_Witness ==
    /\ lastOp.op = "release" /\ ~lastOp.ok
    /\ lastOp.lockId < nextLockId
    /\ locks /= {}


(***************************************************************************)
(* Properties of the replacement sub-protocol.                             *)
(***************************************************************************)
\* The calls of the replacement sub-protocol, in the order of the claim.
ReplacementOrder ==
    <<"plan_destroy", "apply_destroy", "delete_row", "plan_create", "apply_create">>

\* C12: the calls a running apply executor has made in the replacement
\* sub-protocol are, in this order, plan destroy, apply destroy, delete of
\* the state row, plan create, apply create, and the call it makes next is
\* the next of that order; the sub-protocol is entered only with a prior
\* state; no call follows a plan or an apply that returned Err, so the
\* create is never issued unless the destroy apply succeeded.
C12_ReplacementRunsInOrder ==
    mode = "apply" =>
        \A t \in BagToSet(tasks) :
            /\ Len(t.trace) <= Len(ReplacementOrder)
            /\ \A i \in 1..Len(t.trace) : t.trace[i][1] = ReplacementOrder[i]
            /\ \A i \in 1..(Len(t.trace) - 1) :
                   t.trace[i][1] /= "delete_row" => t.trace[i][2]
            /\ t.trace /= <<>> => t.prior /= "none"
            /\ (t.pc \in {"plan_destroy", "apply_destroy", "delete_row",
                          "plan_create", "apply_create"})
                   => t.pc = ReplacementOrder[Len(t.trace) + 1]

\* An executor has issued the create of a replacement.
C12_Witness ==
    mode = "apply" /\ \E t \in BagToSet(tasks) :
        /\ Len(t.trace) = Len(ReplacementOrder)
        /\ t.pc = "insert_live"


(***************************************************************************)
(* Properties of the state written by apply.                               *)
(***************************************************************************)
\* The executor of task t returned Ok with a new state.
ReportsNewState(t) == t.res = "Succeeded" /\ t.out = "new"

\* C13: the apply executor of a resource writes its new state to the
\* live-state map first and to the store second, and it returns Ok with a
\* new state -- which is what the walker reports as Succeeded -- only after
\* both writes.
C13_LiveInsertThenUpsertBeforeSucceeded ==
    mode = "apply" =>
        \A t \in BagToSet(tasks) :
            kind[t.node] = "Resource" =>
                /\ t.stored \in {<<>>, <<"live">>, <<"live", "store">>}
                /\ t.stored /= <<>> => liveState[t.node] = "new"
                /\ t.pc = "upsert" => t.stored = <<"live">>
                /\ ReportsNewState(t) => t.stored = <<"live", "store">>
                /\ MarkedWithState(t.node) =>
                       \E u \in BagToSet(tasks) :
                           /\ u.node = t.node
                           /\ u.stored = <<"live", "store">>

\* The walker has recorded a resource Succeeded with its new state.
C13_Witness ==
    /\ mode = "apply"
    /\ \E t \in BagToSet(tasks) :
           /\ kind[t.node] = "Resource"
           /\ t.pc = "done" /\ ReportsNewState(t)
           /\ MarkedWithState(t.node)
           /\ store[t.node] = "new"


(***************************************************************************)
(* Properties of destroy.                                                  *)
(***************************************************************************)
\* The graph build_resource_dag returned: the one walked by apply, the
\* inverse of the one walked by destroy.
ConfigEdges == IF mode = "destroy" THEN ReverseEdges(edges) ELSE edges

\* The nodes that depend on n in the configuration.
ConfigDependents(n) ==
    {d \in Nodes : \E k \in DOMAIN ConfigEdges : ConfigEdges[k] = <<n, d>>}

\* C14: in destroy the executor of a node is called, and so its destroy is
\* issued, only after the walker has marked Succeeded every node that
\* depends on it in the configuration.
C14_DestroyAfterDependentsSucceeded ==
    mode = "destroy" =>
        /\ \A t \in BagToSet(tasks) :
               Started(t) => ConfigDependents(t.node) \subseteq reached
        /\ \A e \in rpcLog : ConfigDependents(e.node) \subseteq reached

\* The destroy of a resource is being applied after the resource that
\* depends on it was destroyed.
C14_Witness ==
    /\ mode = "destroy"
    /\ \E t \in BagToSet(tasks) :
           /\ t.pc = "destroy_apply"
           /\ \E d \in ConfigDependents(t.node) :
                  /\ kind[d] = "Resource"
                  /\ \E e \in rpcLog : e.node = d /\ e.rpc = "ApplyResourceChange"


\* Task t takes the step.
Acts(t) == CopiesIn(t, tasks') < CopiesIn(t, tasks)

C15_Step ==
    mode = "destroy" =>
        \A n \in Nodes :
            store'[n] /= store[n] =>
                /\ store'[n] = "none"
                /\ \E t \in BagToSet(tasks) :
                       /\ Acts(t)
                       /\ t.node = n
                       /\ t.pc = "destroy_delete"
                       /\ t.trace = << <<"destroy_plan", TRUE>>,
                                       <<"destroy_apply", TRUE>> >>

\* C15: in destroy a state row changes only by being deleted, in a step of
\* a destroy executor of that resource whose destroy plan and destroy apply
\* both returned Ok; a step in which either fails leaves every row as it
\* was.
C15_RowDeletedOnlyAfterDestroySucceeded == [][C15_Step]_vars

\* A destroy executor has deleted the row of its resource and returned Ok.
C15_Witness ==
    /\ mode = "destroy"
    /\ \E t \in BagToSet(tasks) :
           /\ t.res = "Succeeded" /\ t.out = "id"
           /\ store[t.node] = "none"


\* B's apply failed in a run of the chain that has returned: B's executor
\* issued ApplyResourceChange and B is Failed; A was applied.
ChainFailedAtB ==
    /\ walkPc = "returned"
    /\ edges = ChainEdges
    /\ statuses[1] = "Succeeded" /\ store[1] = "new"
    /\ statuses[2] = "Failed"
    /\ \E e \in rpcLog : e.node = 2 /\ e.rpc = "ApplyResourceChange"

\* C16: for the chain A -> B -> C of three creates in which B's apply
\* fails, A is applied, B is Failed, C is Skipped with B named as the failed
\* dependency, and the apply summary reports added = 1, failed = 1 and
\* skipped = 1.
C16_ChainFailureSummary ==
    ChainFailedAtB =>
        /\ statuses[3] = "Skipped" /\ skipDep[3] = 2
        /\ LET summary == ApplySummary(ChainPlan, results)
           IN summary.added = 1 /\ summary.failed = 1 /\ summary.skipped = 1

\* The part of C16 that the walker and the counts of the results keep.
C16_ChainFailureStatuses ==
    ChainFailedAtB =>
        /\ statuses[3] = "Skipped" /\ skipDep[3] = 2
        /\ LET summary == ApplySummary(ChainPlan, results)
           IN summary.failed = 1 /\ summary.skipped = 1


(***************************************************************************)
(* Properties of the live-state map.                                       *)
(***************************************************************************)
\* History: the number of resource_states.insert calls made for node n in
\* this run, one for each executor call that has written "live".
LiveInserts(n) ==
    CopiesOf({t \in BagToSet(tasks) :
                  t.node = n /\ \E k \in DOMAIN t.stored : t.stored[k] = "live"},
             tasks)

\* C17: within one apply run each resource or data-source address is
\* inserted into the live-state map at most once.
C17_LiveStateWrittenOncePerKey ==
    mode = "apply" => \A n \in Nodes : LiveInserts(n) <= 1

\* The part of C17 that holds: one call of the executor inserts its
\* address at most once.
C17_OneInsertPerExecutorCall ==
    \A t \in BagToSet(tasks) :
        Cardinality({k \in DOMAIN t.stored : t.stored[k] = "live"}) <= 1


\* No two edges of the graph join the same two nodes.
NoParallelEdges ==
    \A i, j \in DOMAIN edges : i /= j => edges[i] /= edges[j]

\* The part of C17 that holds: in a graph without parallel edges each
\* address is inserted at most once.
C17_WrittenOnceWithoutParallelEdges ==
    (mode = "apply" /\ NoParallelEdges) => \A n \in Nodes : LiveInserts(n) <= 1

\* History: the number of calls of node n's executor made in this walk,
\* one for each task of the node that has passed the semaphore.
ExecutorCalls(n) ==
    CopiesOf({t \in BagToSet(tasks) : t.node = n /\ t.pc /= "acquire"}, tasks)

\* C30: in one walk each node's executor is invoked at most once, for
\* every acyclic graph the builder can produce, graphs with more than one
\* edge between the same pair of nodes included.
C30_ExecutorInvokedAtMostOnce ==
    \A n \in Nodes : ExecutorCalls(n) <= 1

\* The part of C30 that holds: in a graph without parallel edges each
\* node's executor is invoked at most once.
C30_InvokedOnceWithoutParallelEdges ==
    NoParallelEdges => \A n \in Nodes : ExecutorCalls(n) <= 1


\* The executor of node n was answered a planned state equal to the prior
\* state and no other plan.
PlannedSame(n) ==
    /\ \E r \in rpcLog : r.node = n /\ r.rpc = "PlanResourceChange"
    /\ \A r \in rpcLog :
          (r.node = n /\ r.rpc = "PlanResourceChange") => r.op = "same"

\* C33: a resource whose prior state equals the provider's planned state
\* (planned action NoOp) is left untouched by apply: no ApplyResourceChange
\* RPC and no destroy is issued for it and its state row is not rewritten.
C33_NoOpResourceUntouched ==
    mode = "apply" =>
        \A n \in Nodes :
            (kind[n] = "Resource" /\ PlannedSame(n)) =>
                /\ \A r \in rpcLog : r.node = n => r.rpc /= "ApplyResourceChange"
                /\ store[n] /= "new"

\* In this step the executor of task t, which has destroyed the old
\* resource in the replacement sub-protocol, ends with Err at the create
\* plan or the create apply.
CreateFailsAfterDestroy(t) ==
    /\ mode = "apply"
    /\ t.pc \in {"plan_create", "apply_create"}
    /\ \E pc \in {"done", "send"} :
           tasks' = ReplaceTask(t, [t EXCEPT !.pc = pc, !.res = "Failed",
                                             !.out = "none", !.trace = <<>>])

\* The Failed result of node n is, or is about to be, with the walker.
FailedSent(t) ==
    \/ \E k \in DOMAIN channel' : channel'[k] = Entry(t.node, "Failed", "none")
    \/ \E u \in BagToSet(tasks') : u.node = t.node /\ u.pc = "send" /\ u.res = "Failed"
    \/ walkPc = "returned"

\* C34: if the replacement sub-protocol has destroyed the old resource and
\* the following create plan or create apply fails, then afterwards the
\* store holds no row for that address and the node is reported Failed.
C34_Step ==
    \A t \in BagToSet(tasks) :
        CreateFailsAfterDestroy(t) => store'[t.node] = "none" /\ FailedSent(t)

C34_FailedReplacementLeavesNoRow == [][C34_Step]_vars

\* The part of C34 that holds: the node is reported Failed, and the row is
\* gone when delete_resource returned Ok and no other call of the node's
\* executor ran.
C34_HeldStep ==
    \A t \in BagToSet(tasks) :
        CreateFailsAfterDestroy(t) =>
            /\ FailedSent(t)
            /\ (NoParallelEdges /\ \E k \in DOMAIN t.trace : t.trace[k] = <<"delete_row", TRUE>>)
                   => store'[t.node] = "none"

C34_RowGoneWhenDeleteSucceeded == [][C34_HeldStep]_vars

(***************************************************************************)
(* Properties of the provider pool.                                        *)
(***************************************************************************)
\* C18: for any number of get_connection calls for a source, concurrent
\* ones included, exactly one provider process is started, and it is the
\* one stored in the pool.
C18_OneProcessPerSource ==
    \A s \in Sources :
        /\ started[s] <= 1
        /\ connections[s] /= 0 => started[s] = 1


\* The RPC of a plan_resource, apply_resource, read_resource or
\* read_data_source call of client c is in flight.
InFlight(c) == clients[c].pc = "r_inflight"

\* A writer holds the lock of the pool, or waits for it ahead of client c.
WriterAhead(c) ==
    \/ rw.writer /= 0
    \/ \E i, j \in DOMAIN rw.queue :
           i < j /\ rw.queue[i].kind = "write" /\ rw.queue[j].client = c

\* C19: a plan, apply or read RPC in flight holds the read lock of the
\* pool and nobody holds the write lock; a plan, apply or read call waits
\* for the lock only behind a writer, never behind the RPCs in flight,
\* however many they are.
C19_RpcsHoldOnlyTheReadLock ==
    \A c \in Clients :
        /\ InFlight(c) => c \in rw.readers /\ rw.writer = 0
        /\ (clients[c].pc = "r_lookup" /\ c \notin rw.readers) => WriterAhead(c)

\* Every client has an RPC in flight against the same provider.
C19_Witness ==
    /\ Cardinality(Clients) > 1
    /\ \A c \in Clients : InFlight(c) /\ clients[c].src = 1


(***************************************************************************)
(* Properties of the run records.                                          *)
(***************************************************************************)
\* C20 as stated: every invocation of apply or destroy creates a run
\* record (an invocation that returned an error aside).
C20_EveryInvocationCreatesRun ==
    \A i \in Cmds :
        (cmds[i].pc = "exited" /\ cmds[i].outcome /= "error") => cmds[i].recorded

\* An earlier run of workspace w is in status running.
EarlierRunning(w) == \E r \in runs : r.workspace = w /\ r.status = "running"

C20_Step ==
    \A i \in Cmds :
        /\ (cmds[i].pc = "start_run" /\ cmds'[i] /= cmds[i]
               /\ cmds[i].ws \in workspaces) =>
              /\ cmds'[i].pc = "engine"
              /\ \E r \in runs' \ runs :
                    /\ r.id = i /\ r.workspace = cmds[i].ws
                    /\ r.status = "running" /\ r.operation = cmds[i].op
              /\ runs \subseteq runs'
        /\ (cmds[i].pc \in {"none", "plan"} /\ cmds'[i].pc = "exited") =>
              runs' = runs

\* C20, amended: an apply with planned changes or a destroy of a workspace
\* with resources that was approved creates a run record of status running
\* when it reaches start_run, whether or not an earlier run of the
\* workspace is still running; an invocation that finds nothing to do, is
\* not approved or fails before that creates none.
C20_ApprovedRunIsRecorded == [][C20_Step]_vars

\* A run was recorded while an earlier run of the workspace was running.
C20_Witness ==
    \E r1, r2 \in runs :
        /\ r1.id /= r2.id /\ r1.workspace = r2.workspace
        /\ r1.status = "running" /\ r2.status = "running"


\* The run record of invocation i is completed.
Completed(i) ==
    \A r \in runs : r.id = i => r.status /= "running" /\ r.completedAt /= "null"

\* C36: every run record created by apply or destroy is completed once the
\* command has returned, with success or with an error: its status is no
\* longer running and completed_at is set.
C36_ReturnedRunIsCompleted ==
    \A i \in Cmds : (cmds[i].pc = "exited" /\ cmds[i].recorded) => Completed(i)

\* What holds of C36: the run record of a command that returned past
\* complete_run is completed.
C36_CompletedWhenEngineReturnedOk ==
    \A i \in Cmds : (cmds[i].pc = "exited" /\ cmds[i].outcome = "done") => Completed(i)


(***************************************************************************)
(* Properties of the apply and destroy commands.                           *)
(***************************************************************************)
\* The command has returned.
CmdEnded == walkPc \in {"aborted", "nochanges", "cancelled", "returned"}

\* The walker reported node n.
Reported(n) == \E e \in BagToSet(results) : e.node = n

\* C21: a resource whose plan-phase error was swallowed is not left out of
\* the apply: when an approved apply command has ended without a fatal
\* error, the resource has been planned again and is reported by the walk.
C21_SwallowedPlanErrorStillApplied ==
    \A n \in Nodes :
        (mode = "apply" /\ walkPc \in {"nochanges", "returned"}
            /\ planned[n].action = "error") => Reported(n)


\* The walker has not been called.
WalkerNotStarted == walkPc \in {"setup", "plan", "aborted", "nochanges", "cancelled"}

C22_Step ==
    WalkerNotStarted => store' = store /\ (walkPc' = "aborted" => tasks' = EmptyBag)

\* C22: a handshake failure, a cycle in the graph or a schema fetch failure
\* ends apply or destroy before the walker is called: a cyclic graph never
\* reaches the walker, and up to and after the abort no executor has been
\* invoked, no RPC of an executor issued and no resource row written or
\* deleted.
C22_FatalErrorAbortsBeforeWalker ==
    /\ [](IsCyclicDirected(nodeCount, edges) => walkPc \in {"setup", "aborted"})
    /\ [](WalkerNotStarted =>
             /\ tasks = EmptyBag /\ rpcLog = {} /\ results = EmptyBag
             /\ \A n \in Nodes : statuses[n] = "Pending" /\ liveState[n] = "none")
    /\ [][C22_Step]_vars

\* A command has aborted on a cycle between two resources that have state
\* rows.
C22_Witness ==
    /\ walkPc = "aborted"
    /\ IsCyclicDirected(nodeCount, edges)
    /\ \A n \in Nodes : store[n] = "prior"


C23_Step ==
    \A n \in Nodes :
        (planned[n].action = "none" /\ planned'[n].action /= "none"
            /\ store[n] = "none") =>
            planned'[n].action \notin {"Replace", "Update", "Delete"}

OnCycle(cfg) ==
    {cfg.listing[v] : v \in {u \in DOMAIN cfg.listing : u \in Reach(GraphOf(cfg), u)}}

\* C24: build_resource_dag rejects every configuration whose dependency
\* edges contain a cycle, with an error that names one of the addresses on
\* the cycle.
C24_CycleRejectedNamingAnAddress ==
    (output.fn = "build_resource_dag" /\ OnCycle(input) /= {}) =>
        ~output.ok /\ output.names \cap OnCycle(input) /= {}

\* The part of C24 that holds: a configuration is rejected exactly when
\* its dependency edges contain a cycle.
C24_CycleRejected ==
    output.fn = "build_resource_dag" => (output.ok <=> OnCycle(input) = {})


\* The addresses of an order of node indices.
AddressOrder(cfg, order) == [i \in DOMAIN order |-> cfg.listing[order[i]]]

\* The place of address a in a sequence of addresses that holds it.
Place(as, a) == CHOOSE i \in DOMAIN as : as[i] = a

\* Every address of the configuration occurs exactly once.
ListsEveryResource(cfg, as) ==
    /\ Len(as) = Len(cfg.listing)
    /\ \A a \in DOMAIN cfg.deps : \E i \in DOMAIN as : as[i] = a

\* a depends on d: d is another resource mentioned by a.
DependsOn(cfg, a, d) == d /= a /\ \E k \in DOMAIN cfg.deps[a] : cfg.deps[a][k] = d

\* C25: on the graph of a cycle-free resource set topological_order lists
\* every dependency strictly before each of its dependents, and
\* reverse_topological_order every dependent strictly before each of its
\* dependencies; both list every resource once.
C25_OrdersRespectDependencies ==
    LET as == AddressOrder(input, output.order)
    IN /\ output.fn = "topological_order" =>
            /\ ListsEveryResource(input, as)
            /\ \A a, d \in DOMAIN input.deps :
                  DependsOn(input, a, d) => Place(as, d) < Place(as, a)
       /\ output.fn = "reverse_topological_order" =>
            /\ ListsEveryResource(input, as)
            /\ \A a, d \in DOMAIN input.deps :
                  DependsOn(input, a, d) => Place(as, a) < Place(as, d)

\* A chain of three resources listed dependents first, ordered in reverse.
C25_Witness ==
    /\ output.fn = "reverse_topological_order"
    /\ \E a, b, c \in DOMAIN input.deps :
          /\ DependsOn(input, a, b) /\ DependsOn(input, b, c)
          /\ IndexOf(input, a) < IndexOf(input, b)
          /\ IndexOf(input, b) < IndexOf(input, c)
          /\ AddressOrder(input, output.order) = <<a, b, c>>


\* The same resources and dependencies, listed in another order.
Relisted(cfg, l) == [cfg EXCEPT !.listing = l]

\* The addresses in the order topological_order gives for a configuration.
OrderOf(cfg) ==
    AddressOrder(cfg, TopologicalOrder(Len(cfg.listing), GraphOf(cfg)))

\* C26: the topological ordering is deterministic, ties being broken by
\* address: the same resource set yields the same order of addresses
\* however the resources are listed.
C26_SameResourceSetSameOrder ==
    output.fn = "topological_order" =>
        \A l \in Listings(Len(input.listing)) :
            OrderOf(Relisted(input, l)) = AddressOrder(input, output.order)


(***************************************************************************)
(* Properties of the resources table.                                      *)
(***************************************************************************)
\* The record replaces every column of the row but created_at.
ReplacedAllButCreatedAt(old, new, rec) ==
    /\ new.createdAt = old.createdAt
    /\ new = [rec EXCEPT !.createdAt = old.createdAt]

\* C27: upsert_resource on an existing (workspace, address) row preserves
\* the row's created_at and replaces every other column with the values of
\* the supplied record.
C27_Step ==
    output'.fn = "upsert_resource" =>
        \A rec \in Records(clock) :
            (/\ rec.address = output'.key
             /\ RowAt(store, rec.workspace, rec.address) /= {}
             /\ UpsertResource(rec)) =>
                \A old \in RowAt(store, rec.workspace, rec.address) :
                    \E new \in RowAt(store', rec.workspace, rec.address) :
                        ReplacedAllButCreatedAt(old, new, rec)

C27_UpsertReplacesAllButCreatedAt == [][C27_Step]_vars

\* The part of C27 that holds: created_at, like the row's id and the
\* columns describing the resource, is kept; status, attributes and
\* updated_at are the record's.
C27_KeptStep ==
    output'.fn = "upsert_resource" =>
        \A rec \in Records(clock) :
            (/\ rec.address = output'.key
             /\ RowAt(store, rec.workspace, rec.address) /= {}
             /\ UpsertResource(rec)) =>
                \A old \in RowAt(store, rec.workspace, rec.address) :
                    \E new \in RowAt(store', rec.workspace, rec.address) :
                        /\ new.createdAt = old.createdAt
                        /\ new.id = old.id
                        /\ new.providerSource = old.providerSource
                        /\ new.status = rec.status
                        /\ new.attributes = rec.attributes
                        /\ new.updatedAt = rec.updatedAt

C27_UpsertKeepsCreatedAt == [][C27_KeptStep]_vars


\* C28: import_tfstate never overwrites an existing resource row: an
\* instance whose (workspace, address) already exists is skipped with a
\* warning and the stored row stays unchanged, so importing the same
\* snapshot a second time leaves the rows exactly as after the first import.
C28_ImportNeverOverwrites ==
    \A w \in workspaces : \A snap \in Snapshots :
        LET first == ImportTfstateResult(store, w, snap, Rfc3339(clock))
        IN /\ store \subseteq first.rows
           /\ \A k \in DOMAIN snap.instances :
                 RowAt(store, w, snap.instances[k].address) /= {} =>
                     \E j \in DOMAIN first.warnings :
                         first.warnings[j] = snap.instances[k].address
           /\ first.imported + Len(first.warnings) = Len(snap.instances)
           /\ \A c \in clock..RowTicks :
                 LET second == ImportTfstateResult(first.rows, w, snap, Rfc3339(c))
                 IN second.rows = first.rows /\ second.imported = 0

\* A snapshot was imported into a table that held a row of one of its
\* addresses with other attributes, written earlier: the instance was
\* skipped with a warning and another instance imported.
C28_Witness ==
    /\ output.fn = "import_tfstate"
    /\ output.imported = 1
    /\ \E r \in store :
          /\ output.warnings = <<r.address>>
          /\ r.status = "tainted"
          /\ r.createdAt /= Rfc3339(clock)

(***************************************************************************)
(* Properties of the module batches.                                       *)
(***************************************************************************)
\* The batches that hold module m.
BatchesOf(batches, m) ==
    {b \in DOMAIN batches : \E k \in DOMAIN batches[b] : batches[b][k] = m}

\* The number of times module m is listed in the batches.
Listed(batches, m) ==
    Cardinality(UNION {{<<b, k>> : k \in {j \in DOMAIN batches[b] : batches[b][j] = m}} :
                          b \in DOMAIN batches})

\* The batch right after the last of the batches of m's dependencies.
EarliestBatch(cfg, batches, m) ==
    LET after == {b + 1 : b \in UNION {BatchesOf(batches, d) :
                                 d \in {x \in DOMAIN cfg.deps : DependsOn(cfg, m, x)}}}
    IN IF after = {} THEN 1 ELSE CHOOSE b \in after : \A c \in after : c <= b

\* C29: resolve_batches places every module in exactly one batch, the
\* earliest batch that comes after the batches of all of its dependencies
\* (a module without dependencies is in the first batch).
C29_EveryModuleInItsEarliestBatch ==
    output.fn = "resolve_batches" =>
        \A m \in DOMAIN input.deps :
            /\ Listed(output.order, m) = 1
            /\ BatchesOf(output.order, m) = {EarliestBatch(input, output.order, m)}

\* A module that names two others, both without dependencies, is alone in
\* the second batch.
C29_Witness ==
    /\ output.fn = "resolve_batches"
    /\ Len(output.order) = 2
    /\ Len(output.order[1]) = 2
    /\ Len(output.order[2]) = 1
    /\ InDegreeOf(output.graph, IndexOf(input, output.order[2][1])) = 2


(***************************************************************************)
(* Module batches: src/executor/parallel.rs                                *)
(*                                                                         *)
(* input is the configuration execute_batches is called with (modules,     *)
(* depends_on, targets, force, settings.parallelism) and the batches       *)
(* resolve_batches made of it; output is the state of the call: the batch  *)
(* and module the spawn loop is at, the join handles of the batch,         *)
(* failed_modules, cancelled_modules, the module statuses of the store,    *)
(* the modules whose task was spawned, the modules whose task returned an  *)
(* error, and what the call returned.                                      *)
(***************************************************************************)
Modules == 1..DagNodes

\* The module configurations build_dag accepts, the modules listed by name.
BatchConfigs ==
    {cfg \in DagConfigs(DagNodes) :
        /\ \A i \in Modules : cfg.listing[i] = i
        /\ BuildDag(cfg).ok}

\* module_config.depends_on
DependsOnOf(m) == {input.deps[m][k] : k \in DOMAIN input.deps[m]}

\* The call at its start.
BatchStart(done) ==
    [fn |-> "execute_batches", pc |-> "running", batch |-> 1, pos |-> 1,
     handles |-> <<>>, failed_modules |-> {}, cancelled_modules |-> {},
     status |-> [m \in Modules |-> IF m \in done THEN "succeeded" ELSE "none"],
     executed |-> {}, erred |-> {}, ret |-> "none"]

\* execute_batches is about to be called; done are the modules the store
\* holds as succeeded from an earlier run.
BatchInit ==
    /\ nodeCount = 0
    /\ edges = <<>>
    /\ maxParallelism = 1
    /\ mode = "batch"
    /\ kind = <<>>
    /\ store = <<>>
    /\ liveState = <<>>
    /\ rpcLog = {}
    /\ StoreInit
    /\ PoolInit
    /\ RunsInit
    /\ NoPlan
    /\ WalkerInit
    /\ \E cfg \in BatchConfigs : \E targets \in SUBSET Modules :
       \E force \in BOOLEAN : \E p \in 0..MaxParallelism :
       \E done \in (IF force THEN {{}} ELSE SUBSET Modules) :
           /\ input = [listing |-> cfg.listing, deps |-> cfg.deps,
                       targets |-> targets, force |-> force, parallelism |-> p,
                       batches |-> ResolveBatches(DagNodes, BuildDag(cfg).graph,
                                                  cfg.listing, cfg.listing)]
           /\ output = BatchStart(done)

BatchStep == UNCHANGED <<walkVars, engineVars, lockVars, poolVars, runVars, input>>

\* The spawn loop is at a module of the current batch.
AtModule ==
    /\ output.pc = "running"
    /\ output.batch <= Len(input.batches)
    /\ output.pos <= Len(input.batches[output.batch])

module_name == input.batches[output.batch][output.pos]

\* "if !target_set.is_empty() && !target_set.contains(module_name)"
NotTargeted(m) == input.targets /= {} /\ m \notin input.targets

\* dep_failed: any depends_on entry in failed_modules or cancelled_modules.
DepFailed(m) ==
    \E d \in DependsOnOf(m) :
        d \in output.failed_modules \/ d \in output.cancelled_modules

\* "if !force" and the stored status is "succeeded"
AlreadySucceeded(m) == ~input.force /\ output.status[m] = "succeeded"

\* The tasks of the batch that hold a semaphore permit.
Running == {k \in DOMAIN output.handles : output.handles[k].outcome = "running"}

\* "continue" for a module outside the targets.
SkipUntargeted ==
    /\ AtModule
    /\ NotTargeted(module_name)
    /\ output' = [output EXCEPT !.pos = @ + 1]
    /\ BatchStep

\* A dependency failed: the module is cancelled and not spawned.
CancelModule ==
    /\ AtModule
    /\ ~NotTargeted(module_name)
    /\ DepFailed(module_name)
    /\ output' = [output EXCEPT !.pos = @ + 1,
                                !.cancelled_modules = @ \cup {module_name},
                                !.status[module_name] = "cancelled"]
    /\ BatchStep

\* "continue" for a module that succeeded in an earlier run.
SkipSucceeded ==
    /\ AtModule
    /\ ~NotTargeted(module_name)
    /\ ~DepFailed(module_name)
    /\ AlreadySucceeded(module_name)
    /\ output' = [output EXCEPT !.pos = @ + 1]
    /\ BatchStep

\* semaphore.acquire_owned().await and tokio::spawn of the module's task.
SpawnModule ==
    /\ AtModule
    /\ ~NotTargeted(module_name)
    /\ ~DepFailed(module_name)
    /\ ~AlreadySucceeded(module_name)
    /\ Cardinality(Running) < input.parallelism
    /\ output' = [output EXCEPT !.pos = @ + 1,
                                !.handles = Append(@, [module |-> module_name,
                                                       outcome |-> "running"]),
                                !.executed = @ \cup {module_name}]
    /\ BatchStep

\* The outcomes of a module's task: Ok with its outputs; an error of
\* terraform init, plan or apply, whose text holds "module '<name>'"; an
\* error of generate_terraform_files, of spawning the binary or of
\* terraform output, whose text does not; a panic.
Outcomes == {"ok", "named", "unnamed", "panicked"}

\* The task of handle k ends and drops its permit.
ModuleTaskEnds(k, outcome) ==
    /\ output.pc = "running"
    /\ k \in Running
    /\ output' = [output EXCEPT
                     !.handles[k].outcome = outcome,
                     !.erred = IF outcome = "ok" THEN @
                               ELSE @ \cup {output.handles[k].module}]
    /\ BatchStep

\* All modules of the batch have been looked at.
AtJoin ==
    /\ output.pc = "running"
    /\ output.batch <= Len(input.batches)
    /\ output.pos > Len(input.batches[output.batch])

\* extract_module_name_from_error: the capture of "module '([^']+)'", none
\* when the text does not match.
ExtractModuleNameFromError(h) ==
    IF h.outcome = "named" THEN {h.module} ELSE {}

\* "match handle.await?" for the first handle of the batch.
JoinHandle ==
    /\ AtJoin
    /\ output.handles /= <<>>
    /\ LET h == Head(output.handles)
           rest == [output EXCEPT !.handles = Tail(@)]
           names == ExtractModuleNameFromError(h)
       IN /\ h.outcome /= "running"
          /\ output' =
               IF h.outcome = "panicked"
               THEN [rest EXCEPT !.pc = "returned", !.ret = "err"]
               ELSE IF h.outcome = "ok"
               THEN [rest EXCEPT !.status[h.module] = "succeeded"]
               ELSE [rest EXCEPT
                        !.failed_modules = @ \cup names,
                        !.status = [m \in Modules |->
                                       IF m \in names THEN "failed" ELSE @[m]]]
    /\ BatchStep

\* The next iteration of "for (batch_idx, batch) in batches".
NextBatch ==
    /\ AtJoin
    /\ output.handles = <<>>
    /\ output' = [output EXCEPT !.batch = @ + 1, !.pos = 1]
    /\ BatchStep

\* After the last batch: bail when failed_modules is not empty, else Ok.
BatchReturn ==
    /\ output.pc = "running"
    /\ output.batch > Len(input.batches)
    /\ output' = [output EXCEPT
                     !.pc = "returned",
                     !.ret = IF output.failed_modules /= {} THEN "err" ELSE "ok"]
    /\ BatchStep

BatchNext ==
    \/ SkipUntargeted
    \/ CancelModule
    \/ SkipSucceeded
    \/ SpawnModule
    \/ \E k \in 1..DagNodes : \E outcome \in Outcomes : ModuleTaskEnds(k, outcome)
    \/ JoinHandle
    \/ NextBatch
    \/ BatchReturn

SpecBatch == BatchInit /\ [][BatchNext]_vars


(***************************************************************************)
(* Properties of execute_batches.                                          *)
(***************************************************************************)
\* Module m has a dependency whose task returned an error or that was
\* cancelled.
DependencyFailedOrCancelled(m) ==
    \E d \in DependsOnOf(m) : d \in output.erred \/ d \in output.cancelled_modules

\* C37: execute_batches never executes a module when one of its depends_on
\* modules failed or was cancelled earlier in the same run; such a module
\* (when it is among the targets) is marked cancelled.
C37_NoExecutionAfterFailedDependency ==
    /\ \A m \in output.executed : ~DependencyFailedOrCancelled(m)
    /\ (output.pc = "returned" /\ output.batch > Len(input.batches)) =>
          \A m \in Modules :
              (DependencyFailedOrCancelled(m) /\ ~NotTargeted(m)) =>
                  output.status[m] = "cancelled"

\* What holds of C37: a module with a dependency in failed_modules or
\* cancelled_modules is never executed, and is marked cancelled when the
\* call returns after the last batch.
C37_NoExecutionAfterRecordedFailure ==
    /\ \A m \in output.executed : ~DepFailed(m)
    /\ (output.pc = "returned" /\ output.batch > Len(input.batches)) =>
          \A m \in Modules :
              (DepFailed(m) /\ ~NotTargeted(m)) => output.status[m] = "cancelled"

\* C38: execute_batches returns an error whenever at least one module
\* execution failed, and Ok only if none failed.
C38_ErrorWhenAnyModuleFailed ==
    output.pc = "returned" => (output.ret = "ok" <=> output.erred = {})

\* What holds of C38: the call returns an error when a failure was recorded
\* in failed_modules or a task panicked, and Ok otherwise.
C38_ErrorWhenFailureRecorded ==
    output.pc = "returned" =>
        (output.ret = "err" <=>
            \/ output.failed_modules /= {}
            \/ output.batch <= Len(input.batches))


(***************************************************************************)
(* File locks: src/state/lock.rs                                           *)
(*                                                                         *)
(* output.files[n] is the lock file of module n: 0 when it does not exist, *)
(* else the pid written to it.  output.procs[p] is process p: where it is  *)
(* in acquire, release or drop, the module of its lock_path, and what its  *)
(* last acquire returned.  Each file system call is one step.              *)
(***************************************************************************)
Procs == 1..LockProcs

Names == 1..ModuleNames

NoProc == [pc |-> "idle", name |-> 0, result |-> "none"]

\* No lock file exists and no process holds a FileLock.
FileInit ==
    /\ nodeCount = 0
    /\ edges = <<>>
    /\ maxParallelism = 1
    /\ mode = "file"
    /\ kind = <<>>
    /\ store = <<>>
    /\ liveState = <<>>
    /\ rpcLog = {}
    /\ StoreInit
    /\ PoolInit
    /\ RunsInit
    /\ NoPlan
    /\ WalkerInit
    /\ input = <<>>
    /\ output = [fn |-> "file_lock", files |-> [n \in Names |-> 0],
                 procs |-> [p \in Procs |-> NoProc]]

\* FileLock::acquire up to "if lock_path.exists()": bail when the file is
\* there, else go on to write it.
AcquireCheck(p, n) ==
    /\ output.procs[p].pc = "idle"
    /\ output' = [output EXCEPT !.procs[p] =
                     IF output.files[n] /= 0
                     THEN [pc |-> "idle", name |-> 0, result |-> "err"]
                     ELSE [pc |-> "checked", name |-> n, result |-> "none"]]
    /\ BatchStep

\* FileLock::acquire from fs::write to Ok(Self { lock_path }): the write
\* creates the file or truncates the file that is there.
AcquireWrite(p) ==
    /\ output.procs[p].pc = "checked"
    /\ output' = [output EXCEPT !.files[output.procs[p].name] = p,
                                !.procs[p].pc = "holding",
                                !.procs[p].result = "ok"]
    /\ BatchStep

\* release(self): "if self.lock_path.exists()"
ReleaseCheck(p) ==
    /\ output.procs[p].pc = "holding"
    /\ output' = [output EXCEPT !.procs[p].pc =
                     IF output.files[output.procs[p].name] /= 0
                     THEN "removing" ELSE "dropping"]
    /\ BatchStep

\* release(self): fs::remove_file(&self.lock_path)?, an error when the
\* file has gone in between; self is dropped at the end either way.
ReleaseRemove(p) ==
    /\ output.procs[p].pc = "removing"
    /\ output' = [output EXCEPT !.files[output.procs[p].name] = 0,
                                !.procs[p].pc = "dropping"]
    /\ BatchStep

\* Drop for FileLock: "let _ = fs::remove_file(&self.lock_path)", of a
\* lock that is held or at the end of release.
DropLock(p) ==
    /\ output.procs[p].pc \in {"holding", "dropping"}
    /\ output' = [output EXCEPT !.files[output.procs[p].name] = 0,
                                !.procs[p] = [pc |-> "idle", name |-> 0,
                                              result |-> @.result]]
    /\ BatchStep

FileNext ==
    \/ \E p \in Procs : \E n \in Names : AcquireCheck(p, n)
    \/ \E p \in Procs : AcquireWrite(p)
    \/ \E p \in Procs : ReleaseCheck(p)
    \/ \E p \in Procs : ReleaseRemove(p)
    \/ \E p \in Procs : DropLock(p)

SpecFile == FileInit /\ [][FileNext]_vars


(***************************************************************************)
(* Properties of the file locks.                                           *)
(***************************************************************************)
\* The processes whose acquire of module n succeeded and that have neither
\* released nor dropped the lock.
Holders(n) ==
    {p \in Procs : output.procs[p].pc = "holding" /\ output.procs[p].name = n}

\* C39: of any number of concurrent acquire calls for the same module name
\* at most one succeeds, until that lock is released or dropped.
C39_AtMostOneHolder == \A n \in Names : Cardinality(Holders(n)) <= 1

\* What holds of C39: an acquire that finds the lock file fails, and an
\* acquire fails only when it found the file.
C39_CheckStep ==
    \A p \in Procs :
        (output.procs[p].pc = "idle" /\ output'.procs[p] /= output.procs[p]) =>
            /\ output'.files = output.files
            /\ \E n \in Names :
                  IF output.files[n] /= 0
                  THEN output'.procs[p].result = "err" /\ output'.procs[p].pc = "idle"
                  ELSE output'.procs[p].pc = "checked" /\ output'.procs[p].name = n

C39_AcquireFailsWhenFileExists == [][C39_CheckStep]_vars


(***************************************************************************)
(* Retry with backoff: src/executor/retry.rs                               *)
(*                                                                         *)
(* input is the call: max_retries, base_delay_ms, and whether the build    *)
(* checks integer overflow (debug) or wraps (release).  output is the      *)
(* state of the loop: attempt, the number of invocations of the operation, *)
(* the delay of the last sleep, and what the call returned.                *)
(***************************************************************************)
U32 == 2 ^ RetryBits

U64 == 2 ^ DelayBits

\* Invocations counted; the loop is not followed beyond.
MaxCalls == U32 + 2

RetryInit ==
    /\ nodeCount = 0
    /\ edges = <<>>
    /\ maxParallelism = 1
    /\ mode = "retry"
    /\ kind = <<>>
    /\ store = <<>>
    /\ liveState = <<>>
    /\ rpcLog = {}
    /\ StoreInit
    /\ PoolInit
    /\ RunsInit
    /\ NoPlan
    /\ WalkerInit
    /\ \E max \in 0..(U32 - 1) : \E base \in 0..1 : \E checks \in BOOLEAN :
           input = [max_retries |-> max, base_delay_ms |-> base,
                    overflow_checks |-> checks]
    /\ output = [fn |-> "with_retry", pc |-> "call", attempt |-> 0, calls |-> 0,
                 delay |-> 0, ret |-> "none"]

\* "match f().await": the operation is invoked and returns Ok or Err.
CallOperation(result) ==
    /\ output.pc = "call"
    /\ output.calls < MaxCalls
    /\ output' = IF result = "ok"
                 THEN [output EXCEPT !.calls = @ + 1, !.pc = "returned", !.ret = "ok"]
                 ELSE [output EXCEPT !.calls = @ + 1, !.pc = "err"]
    /\ BatchStep

\* "base_delay_ms * 2u64.pow(attempt - 1)": the value, and whether one of
\* the three operations overflows.
Delay(attempt) ==
    LET exp == (attempt - 1) % U32
        pow == IF exp >= DelayBits THEN 0 ELSE 2 ^ exp
        product == input.base_delay_ms * pow
    IN [value |-> product % U64,
        overflows |-> attempt = 0 \/ exp >= DelayBits \/ product >= U64]

\* The Err arm: "attempt += 1", "if attempt > max_retries { return Err(e) }",
\* then the delay of the sleep.  An overflow panics in a build with
\* overflow checks and wraps in one without.
OnErr ==
    /\ output.pc = "err"
    /\ LET overflows == output.attempt + 1 = U32
           attempt == (output.attempt + 1) % U32
           delay == Delay(attempt)
       IN output' =
            IF overflows /\ input.overflow_checks
            THEN [output EXCEPT !.pc = "returned", !.ret = "panic"]
            ELSE IF attempt > input.max_retries
            THEN [output EXCEPT !.attempt = attempt, !.pc = "returned", !.ret = "err"]
            ELSE IF delay.overflows /\ input.overflow_checks
            THEN [output EXCEPT !.attempt = attempt, !.pc = "returned", !.ret = "panic"]
            ELSE [output EXCEPT !.attempt = attempt, !.pc = "sleep",
                                !.delay = delay.value]
    /\ BatchStep

\* tokio::time::sleep(delay).await returns and the loop goes round.
Sleep ==
    /\ output.pc = "sleep"
    /\ output' = [output EXCEPT !.pc = "call"]
    /\ BatchStep

RetryNext ==
    \/ \E result \in {"ok", "err"} : CallOperation(result)
    \/ OnErr
    \/ Sleep

SpecRetry == RetryInit /\ [][RetryNext]_vars


(***************************************************************************)
(* Properties of with_retry.                                               *)
(***************************************************************************)
\* C40: with_retry invokes the operation at most max_retries + 1 times and
\* never invokes it again after an invocation has returned Ok.
C40_Step ==
    /\ output'.calls <= input.max_retries + 1
    /\ output.ret = "ok" => output'.calls = output.calls

C40_AtMostMaxRetriesPlusOneCalls == [][C40_Step]_vars

\* What holds of C40: the operation is never invoked after an Ok, and at
\* most max_retries + 1 times when max_retries is below the largest value
\* of its type or the build checks overflow.
C40_HeldStep ==
    /\ (input.max_retries < U32 - 1 \/ input.overflow_checks) =>
          output'.calls <= input.max_retries + 1
    /\ output.ret = "ok" => output'.calls = output.calls

C40_BoundedBelowTheLargestCount == [][C40_HeldStep]_vars

====
